---- MODULE Spec2Model ----
(***************************************************************************)
(* A model of simple-html-parser: the HTML scanner (SimpleHtmlParser.parse),*)
(* the Node tree with its mutation operations, the serializer (toHtml) and  *)
(* the traversal iterator.                                                  *)
(*                                                                          *)
(* A JavaScript string is a sequence of one-character strings, positions    *)
(* are 0-based as in the source (At, Substring, IndexOf translate to the    *)
(* 1-based sequences of TLA+).  A Node object is its index in the sequence  *)
(* `nodes` (the heap); the null reference is 0.                             *)
(***************************************************************************)
EXTENDS Integers, Sequences, FiniteSets, TLC

VARIABLES
    pieces,        \* the lexical pieces the input text was put together from
    html,          \* parse(html): the input string
    pos,           \* parse: the position cursor
    currentNode,   \* parse: the current insertion point
    pc,            \* "parse" while the scan loop runs, "ready" once parse returned,
                   \* "iterating" inside a for...of loop, "finished" after it,
                   \* "left" after a loop the caller left early, "after" once a
                   \* statement that follows the loop has run,
                   \* "hung" inside a call that never returns
    nodes,         \* the heap of Node objects
    prev,          \* the heap before the last operation on the tree
    lastOp,        \* the last operation on the tree: its name, receiver, argument, outcome
                   \* (and the position and the fragment of an insertAdjacentHTML)
    opCount,       \* the number of operations on the tree so far
    kinds,         \* the names of the operations on the tree so far
    iter,          \* the closure variables of the iterator of the running loop
    yielded,       \* the values the running loop has received
    removed,       \* the remove() calls of the loop body: the node and the yield it followed
    skipped        \* the skipChildren() calls of the loop body: the yield each followed

history == <<prev, lastOp, opCount, kinds>>
loop == <<iter, yielded, removed, skipped>>
vars == <<pieces, html, pos, currentNode, pc, nodes, history, loop>>

Null == 0
Undefined == "undefined"

-----------------------------------------------------------------------------
(* JavaScript string primitives *)

MinOf(a, b) == IF a <= b THEN a ELSE b
MaxOf(a, b) == IF a >= b THEN a ELSE b
Clamp(i, n) == IF i < 0 THEN 0 ELSE IF i > n THEN n ELSE i

\* s[i]: undefined outside the string
At(s, i) == IF i >= 0 /\ i < Len(s) THEN s[i + 1] ELSE Undefined

\* s.substring(a, b): both ends clamped, swapped when a > b
Substring(s, a, b) ==
    LET x == Clamp(a, Len(s))
        y == Clamp(b, Len(s))
    IN  SubSeq(s, MinOf(x, y) + 1, MaxOf(x, y))

\* s.substring(a)
SubstringFrom(s, a) == Substring(s, a, Len(s))

StartsWithAt(s, pat, i) ==
    /\ i + Len(pat) <= Len(s)
    /\ \A k \in 1..Len(pat) : s[i + k] = pat[k]

\* s.indexOf(pat, from): -1 when pat does not occur at or after from
IndexOf(s, pat, from) ==
    LET cands == {i \in Clamp(from, Len(s))..(Len(s) - Len(pat)) : StartsWithAt(s, pat, i)}
    IN  IF cands = {} THEN -1
        ELSE CHOOSE i \in cands : \A j \in cands : i <= j

\* the character classes of the regular expressions
Letters == {"a", "b", "c", "d", "e", "f", "g", "h", "i", "j", "k", "l", "m",
            "n", "o", "p", "q", "r", "s", "t", "u", "v", "w", "x", "y", "z"}
Digits == {"0", "1", "2", "3", "4", "5", "6", "7", "8", "9"}
\* [a-zA-Z0-9_\-] (validTagName) and [\w-] (attributePattern) are the same class
WordChar(c) == c \in Letters \cup Digits \cup {"_", "-"}
\* \s
Whitespace(c) == c \in {" ", "\n", "\t"}
\* REGEX.validTagName.test(html[pos + 1]): test() turns undefined into the
\* string "undefined", which matches
ValidTagNameTest(c) == c = Undefined \/ WordChar(c)

\* s.trim() === ''
IsBlank(s) == \A k \in 1..Len(s) : Whitespace(s[k])

EMPVAL == <<"_", "_", "E", "M", "P", "V", "A", "L", "_", "_">>

VOID_ELEMS == {
    <<"i", "m", "g">>, <<"b", "r">>, <<"h", "r">>, <<"i", "n", "p", "u", "t">>,
    <<"m", "e", "t", "a">>, <<"l", "i", "n", "k">>, <<"a", "r", "e", "a">>,
    <<"b", "a", "s", "e">>, <<"c", "o", "l">>, <<"e", "m", "b", "e", "d">>,
    <<"p", "a", "r", "a", "m">>, <<"s", "o", "u", "r", "c", "e">>,
    <<"t", "r", "a", "c", "k">>, <<"w", "b", "r">>}

-----------------------------------------------------------------------------
(* Node *)

\* new Node(type, name, attributes, parent).  The properties the parsers add
\* to some nodes are fields of every node here, with the value that reads as
\* their absence: styleBlock false, cssParams empty, cssDeclarations without
\* entries (cssName and cssSelector are copies of name).
NewNode(type, name, attributes, parent) ==
    [type |-> type, name |-> name, attributes |-> attributes, parent |-> parent,
     children |-> <<>>, content |-> <<>>,
     styleBlock |-> FALSE, cssParams |-> <<>>, cssDeclarations |-> <<>>]

\* the text and comment nodes get their content assigned after construction
WithContent(node, content) == [node EXCEPT !.content = content]

\* the loop body of appendChild: node.parent = this; this.children.push(node)
AppendOne(t, this, node) ==
    [t EXCEPT ![node].parent = this, ![this].children = Append(@, node)]

RECURSIVE AppendChild(_, _, _)
\* this.appendChild(...ns)
AppendChild(t, this, ns) ==
    IF ns = <<>> THEN t
    ELSE AppendChild(AppendOne(t, this, Head(ns)), this, Tail(ns))

-----------------------------------------------------------------------------
(* SimpleHtmlParser.parse: one pass of the scan loop per step *)

Str(c) == <<c>>
COMMENT_OPEN == <<"<", "!", "-", "-">>
COMMENT_CLOSE == <<"-", "-", ">">>

RECURSIVE WordRunEnd(_, _)
\* the end of the greedy [\w-]+ that starts at i
WordRunEnd(s, i) == IF WordChar(At(s, i)) THEN WordRunEnd(s, i + 1) ELSE i

RECURSIVE NonSpaceRunEnd(_, _)
\* the end of the greedy \S+ that starts at i
NonSpaceRunEnd(s, i) ==
    IF i < Len(s) /\ ~Whitespace(At(s, i)) THEN NonSpaceRunEnd(s, i + 1) ELSE i

\* tagContent.split(REGEX.whitespace)[0]
FirstPart(s) ==
    LET ws == {i \in 0..(Len(s) - 1) : Whitespace(At(s, i))}
    IN  IF ws = {} THEN s
        ELSE Substring(s, 0, CHOOSE i \in ws : \A j \in ws : i <= j)

\* attributePattern.exec(s) with lastIndex = from:
\* /([\w-]+)(?:=(?:"([^"]*)"|'([^']*)'|(\S+)))?/g
\* found, the name (group 1), the value (group 2, 3 or 4; <<>> when none
\* took part or the quoted value is empty) and the new lastIndex
AttrExec(s, from) ==
    LET starts == {i \in from..(Len(s) - 1) : WordChar(At(s, i))}
    IN  IF starts = {} THEN [found |-> FALSE, name |-> <<>>, value |-> <<>>, last |-> 0]
        ELSE
        LET j == CHOOSE i \in starts : \A x \in starts : i <= x
            k == WordRunEnd(s, j)
            dq == IndexOf(s, Str("\""), k + 2)
            sq == IndexOf(s, Str("'"), k + 2)
            name == Substring(s, j, k)
        IN  IF At(s, k) = "=" /\ At(s, k + 1) = "\"" /\ dq # -1
            THEN [found |-> TRUE, name |-> name, value |-> Substring(s, k + 2, dq), last |-> dq + 1]
            ELSE IF At(s, k) = "=" /\ At(s, k + 1) = "'" /\ sq # -1
            THEN [found |-> TRUE, name |-> name, value |-> Substring(s, k + 2, sq), last |-> sq + 1]
            ELSE IF At(s, k) = "=" /\ k + 1 < Len(s) /\ ~Whitespace(At(s, k + 1))
            THEN [found |-> TRUE, name |-> name,
                  value |-> Substring(s, k + 1, NonSpaceRunEnd(s, k + 1)),
                  last |-> NonSpaceRunEnd(s, k + 1)]
            ELSE [found |-> TRUE, name |-> name, value |-> <<>>, last |-> k]

\* attributes[name] = value on an object: a key keeps its place when it is
\* assigned again (the names of the model are never canonical array indices)
SetAttr(attrs, name, value) ==
    IF \E i \in 1..Len(attrs) : attrs[i].name = name
    THEN [i \in 1..Len(attrs) |->
            IF attrs[i].name = name THEN [name |-> name, value |-> value] ELSE attrs[i]]
    ELSE Append(attrs, [name |-> name, value |-> value])

RECURSIVE ParseAttributes(_, _, _)
\* the attribute sweep: match[2] || match[3] || match[4] || '__EMPVAL__'
ParseAttributes(s, from, attrs) ==
    LET m == AttrExec(s, from)
    IN  IF ~m.found THEN attrs
        ELSE ParseAttributes(s, m.last,
                 SetAttr(attrs, m.name, IF m.value = <<>> THEN EMPVAL ELSE m.value))

-----------------------------------------------------------------------------
(* CSSParser: the scan position and the heap are the record c = [t, pos,   *)
(* hung].  A pass of a loop that ends at the position it began at, with    *)
(* nothing appended, is repeated without end: hung says the call never     *)
(* returns.  An operation that returns a node adds the field node.         *)

\* #peek(offset): '' outside the string
CssPeek(css, p0, offset) ==
    IF p0 + offset < Len(css) THEN css[p0 + offset + 1] ELSE ""

RECURSIVE SkipWhitespace(_, _)
\* #skipWhitespace: the position after it
SkipWhitespace(css, p0) ==
    IF p0 < Len(css) /\ Whitespace(css[p0 + 1]) THEN SkipWhitespace(css, p0 + 1) ELSE p0

RECURSIVE TrimStart(_)
TrimStart(s) == IF s # <<>> /\ Whitespace(Head(s)) THEN TrimStart(Tail(s)) ELSE s

RECURSIVE TrimEnd(_)
TrimEnd(s) ==
    IF s # <<>> /\ Whitespace(s[Len(s)]) THEN TrimEnd(SubSeq(s, 1, Len(s) - 1)) ELSE s

\* s.trim()
Trim(s) == TrimEnd(TrimStart(s))

\* the change of the parenthesis depth at the character ch
DepthAfter(depth, ch) ==
    IF ch = "(" THEN depth + 1 ELSE IF ch = ")" THEN depth - 1 ELSE depth

RECURSIVE ScanToBrace(_, _, _)
\* the scan of a selector and of the parameters of an at-rule: up to a '{'
\* outside parentheses, or to the end
ScanToBrace(css, p0, depth) ==
    IF p0 >= Len(css) THEN p0
    ELSE IF css[p0 + 1] = "{" /\ depth = 0 THEN p0
    ELSE ScanToBrace(css, p0 + 1, DepthAfter(depth, css[p0 + 1]))

RECURSIVE ScanToAny(_, _, _)
\* the scans that stop at the first character of the set stops
ScanToAny(css, p0, stops) ==
    IF p0 < Len(css) /\ css[p0 + 1] \notin stops THEN ScanToAny(css, p0 + 1, stops) ELSE p0

RECURSIVE ScanValue(_, _, _)
\* the scan of a declaration value: up to a ';' or '}' outside parentheses
ScanValue(css, p0, depth) ==
    IF p0 >= Len(css) THEN p0
    ELSE IF css[p0 + 1] \notin {"(", ")"} /\ depth = 0 /\ css[p0 + 1] \in {";", "}"} THEN p0
    ELSE ScanValue(css, p0 + 1, DepthAfter(depth, css[p0 + 1]))

RECURSIVE IsNestedRuleFrom(_, _, _)
\* #isNestedRule, the look-ahead from tempPos: foundBrace && !foundColon
IsNestedRuleFrom(css, tempPos, depth) ==
    IF tempPos >= Len(css) THEN FALSE
    ELSE IF css[tempPos + 1] \in {"(", ")"}
    THEN IsNestedRuleFrom(css, tempPos + 1, DepthAfter(depth, css[tempPos + 1]))
    ELSE IF depth = 0 /\ css[tempPos + 1] = ":" /\ At(css, tempPos + 1) # ":" THEN FALSE
    ELSE IF depth = 0 /\ css[tempPos + 1] = "{" THEN TRUE
    ELSE IF depth = 0 /\ css[tempPos + 1] \in {";", "}"} THEN FALSE
    ELSE IsNestedRuleFrom(css, tempPos + 1, depth)

\* #isNestedRule
IsNestedRule(css, p0) == IsNestedRuleFrom(css, p0, 0)

\* the result of an operation that made the node whose heap is t
Made(t, p0, node) == [t |-> t, pos |-> p0, hung |-> FALSE, node |-> node]

\* parent.appendChild(node) on the result r of a parse operation, when it
\* returned a node
Appended(r, parent) ==
    [t |-> IF r.node = Null \/ r.hung THEN r.t ELSE AppendOne(r.t, parent, r.node),
     pos |-> r.pos, hung |-> r.hung]

\* #parseComment, from the search of the closing delimiter on
CommentUpTo(css, c, end) ==
    Made(Append(c.t, WithContent(NewNode("comment", <<>>, <<>>, Null),
                                 Substring(css, c.pos + 2, IF end = -1 THEN Len(css) ELSE end))),
         IF end = -1 THEN Len(css) ELSE end + 2,
         Len(c.t) + 1)

\* #parseComment, called at a comment opener
ParseCssComment(css, c) == CommentUpTo(css, c, IndexOf(css, <<"*", "/">>, c.pos + 2))

\* rule.cssDeclarations[property] = value when both are non-empty
Declared(t, rule, property, value) ==
    IF property # <<>> /\ value # <<>>
    THEN [t EXCEPT ![rule].cssDeclarations = SetAttr(@, property, value)]
    ELSE t

\* #parseDeclaration, from the value on: valueStart and the end of its scan
DeclarationValue(css, c, rule, property, valueStart, valueEnd) ==
    [t |-> Declared(c.t, rule, property, Trim(Substring(css, valueStart, valueEnd))),
     pos |-> IF CssPeek(css, valueEnd, 0) = ";" THEN valueEnd + 1 ELSE valueEnd,
     hung |-> FALSE]

\* #parseDeclaration of a declaration with no ':': skipped to the next ; or }
DeclarationSkipped(css, c, stop) ==
    [t |-> c.t, pos |-> IF CssPeek(css, stop, 0) = ";" THEN stop + 1 ELSE stop, hung |-> FALSE]

\* #parseDeclaration, from the end propEnd of the property scan on
DeclarationFrom(css, c, rule, propEnd) ==
    IF CssPeek(css, propEnd, 0) # ":"
    THEN DeclarationSkipped(css, c, ScanToAny(css, propEnd, {";", "}"}))
    ELSE DeclarationValue(css, c, rule, Trim(Substring(css, c.pos, propEnd)),
                          SkipWhitespace(css, propEnd + 1),
                          ScanValue(css, SkipWhitespace(css, propEnd + 1), 0))

\* #parseDeclaration
ParseDeclaration(css, c, rule) ==
    DeclarationFrom(css, c, rule, ScanToAny(css, c.pos, {":", "}"}))

RECURSIVE AtRuleNameEnd(_, _)
\* the end of the run of REGEX.atRuleName characters
AtRuleNameEnd(css, p0) ==
    IF p0 < Len(css) /\ css[p0 + 1] \in Letters \cup {"-"}
    THEN AtRuleNameEnd(css, p0 + 1) ELSE p0

\* the at-rules that are statements: import, charset, namespace
StatementAtRules ==
    {<<"i", "m", "p", "o", "r", "t">>, <<"c", "h", "a", "r", "s", "e", "t">>,
     <<"n", "a", "m", "e", "s", "p", "a", "c", "e">>}

RECURSIVE ParseBlock(_, _, _)
RECURSIVE ParseRule(_, _, _)
RECURSIVE ParseAtRule(_, _, _)

\* #parseAtRule of a statement at-rule: the parameters run to the next ';'
AtRuleStatement(css, c, atRule, start, end) ==
    Made([c.t EXCEPT ![atRule].cssParams = Trim(Substring(css, start, end))],
         IF CssPeek(css, end, 0) = ";" THEN end + 1 ELSE end,
         atRule)

\* #parseAtRule, from the end of the parameter scan on: the block, when a '{'
\* follows the parameters
AtRuleBlock(css, c, atRule, paramsStart, paramsEnd, afterSpace) ==
    IF CssPeek(css, afterSpace, 0) = "{"
    THEN [node |-> atRule] @@
         ParseBlock(css, [t |-> [c.t EXCEPT ![atRule].cssParams =
                                     Trim(Substring(css, paramsStart, paramsEnd))],
                          pos |-> afterSpace + 1, hung |-> FALSE],
                    atRule)
    ELSE Made([c.t EXCEPT ![atRule].cssParams = Trim(Substring(css, paramsStart, paramsEnd))],
              afterSpace, atRule)

\* #parseAtRule, from the node on: c.t holds the at-rule, start is the
\* position after the name and the whitespace
AtRuleFrom(css, c, atRule, start) ==
    IF c.t[atRule].name \in StatementAtRules
    THEN AtRuleStatement(css, c, atRule, start, ScanToAny(css, start, {";"}))
    ELSE AtRuleBlock(css, c, atRule, start, ScanToBrace(css, start, 0),
                     SkipWhitespace(css, ScanToBrace(css, start, 0)))

\* #parseAtRule, called at an '@'
ParseAtRule(css, c, parent) ==
    AtRuleFrom(css,
               [c EXCEPT !.t = Append(@, NewNode("css-at-rule",
                                                 Substring(css, c.pos + 1,
                                                           AtRuleNameEnd(css, c.pos + 1)),
                                                 <<>>, parent))],
               Len(c.t) + 1,
               SkipWhitespace(css, AtRuleNameEnd(css, c.pos + 1)))

\* #parseRule, from the end of the selector scan on
RuleFrom(css, c, parent, end) ==
    IF Trim(Substring(css, c.pos, end)) = <<>> \/ CssPeek(css, end, 0) # "{"
    THEN Made(c.t, end, Null)
    ELSE [node |-> Len(c.t) + 1] @@
         ParseBlock(css, [t |-> Append(c.t, NewNode("css-rule",
                                                    Trim(Substring(css, c.pos, end)),
                                                    <<>>, parent)),
                          pos |-> end + 1, hung |-> FALSE],
                    Len(c.t) + 1)

\* #parseRule
ParseRule(css, c, parent) == RuleFrom(css, c, parent, ScanToBrace(css, c.pos, 0))

\* what a pass of the loop of #parseBlock does at a character that is not '}'
BlockItem(css, c, rule) ==
    IF CssPeek(css, c.pos, 0) = "/" /\ CssPeek(css, c.pos, 1) = "*"
    THEN Appended(ParseCssComment(css, c), rule)
    ELSE IF CssPeek(css, c.pos, 0) = "@" THEN Appended(ParseAtRule(css, c, rule), rule)
    ELSE IF IsNestedRule(css, c.pos) THEN Appended(ParseRule(css, c, rule), rule)
    ELSE ParseDeclaration(css, c, rule)

\* the end of a pass that began at the position head: the loop goes on, or
\* the pass moved nothing and is repeated for ever
BlockNext(css, head, rule, r) ==
    IF r.hung THEN r
    ELSE IF r.pos = head THEN [r EXCEPT !.hung = TRUE]
    ELSE ParseBlock(css, r, rule)

\* a pass of the loop of #parseBlock, p the position after #skipWhitespace
BlockPass(css, c, rule, p) ==
    IF p >= Len(css) THEN [c EXCEPT !.pos = p]
    ELSE IF css[p + 1] = "}" THEN [c EXCEPT !.pos = p + 1]
    ELSE BlockNext(css, c.pos, rule, BlockItem(css, [c EXCEPT !.pos = p], rule))

\* #parseBlock
ParseBlock(css, c, rule) == BlockPass(css, c, rule, SkipWhitespace(css, c.pos))

\* what a pass of the loop of parse does
TopItem(css, c, root) ==
    IF CssPeek(css, c.pos, 0) = "/" /\ CssPeek(css, c.pos, 1) = "*"
    THEN Appended(ParseCssComment(css, c), root)
    ELSE IF CssPeek(css, c.pos, 0) = "@" THEN Appended(ParseAtRule(css, c, root), root)
    ELSE Appended(ParseRule(css, c, root), root)

RECURSIVE TopLoop(_, _, _)
\* the end of a pass of the loop of parse that began at the position head
TopNext(css, head, root, r) ==
    IF r.hung THEN r
    ELSE IF r.pos = head THEN [r EXCEPT !.hung = TRUE]
    ELSE TopLoop(css, r, root)

\* a pass of the loop of parse, p the position after #skipWhitespace
TopPass(css, c, root, p) ==
    IF p >= Len(css) THEN [c EXCEPT !.pos = p]
    ELSE TopNext(css, c.pos, root, TopItem(css, [c EXCEPT !.pos = p], root))

\* while (this.#pos < this.#length) of parse
TopLoop(css, c, root) == TopPass(css, c, root, SkipWhitespace(css, c.pos))

\* new CSSParser().parse(css) on the heap t: the heap with the css-root and
\* the nodes under it, the css-root, and whether the call never returns
CssParse(css, t) ==
    [root |-> Len(t) + 1] @@
    TopLoop(css, [t |-> Append(t, NewNode("css-root", <<>>, <<>>, Null)),
                  pos |-> 0, hung |-> FALSE],
            Len(t) + 1)

-----------------------------------------------------------------------------
(* SimpleHtmlParser.parse *)

STYLE == <<"s", "t", "y", "l", "e">>
\* closeTag = `</${tagName}>` for the tag name style
STYLE_CLOSE == <<"<", "/">> \o STYLE \o <<">">>

\* tagName === 'style' and closeTagPos !== -1 for the opening tag at p
IsStyleBlock(h, p) ==
    /\ FirstPart(Substring(h, p + 1, IndexOf(h, Str(">"), p))) = STYLE
    /\ IndexOf(h, STYLE_CLOSE, p) # -1

\* cssContent = html.substring(tagEnd + 1, closeTagPos)
CssContent(h, p) ==
    Substring(h, IndexOf(h, Str(">"), p) + 1, IndexOf(h, STYLE_CLOSE, p))

\* which branch of the loop body is taken at position p
Branch(h, p) ==
    LET c0 == At(h, p)
        c1 == At(h, p + 1)
    IN  IF c0 = "<" /\ Substring(h, p, p + 4) = COMMENT_OPEN
        THEN IF IndexOf(h, COMMENT_CLOSE, p) = -1 THEN "commentSkip" ELSE "comment"
        ELSE IF c0 = "<" /\ (c1 = "<" \/ c1 = " " \/
                             (c1 # "/" /\ c1 # "!" /\ ~ValidTagNameTest(c1)))
        THEN "nonTag"
        ELSE IF c0 = "<" /\ c1 # "/"
        THEN IF IndexOf(h, Str(">"), p) = -1 THEN "openSkip"
             ELSE IF ~IsStyleBlock(h, p) THEN "open"
             ELSE IF CssParse(CssContent(h, p), <<>>).hung THEN "styleHang"
             ELSE "style"
        ELSE IF c0 = "<" /\ c1 = "/"
        THEN IF IndexOf(h, Str(">"), p) = -1 THEN "closeSkip" ELSE "close"
        ELSE "text"

\* pos += 1; continue
SkipOne(h, st) == [st EXCEPT !.pos = st.pos + 1]

\* the comment branch with the content taken one character early
CommentBranchOffByOne(h, st) ==
    LET commentEnd == IndexOf(h, COMMENT_CLOSE, st.pos)
        commentNode == WithContent(NewNode("comment", <<>>, <<>>, st.currentNode),
                                   Substring(h, st.pos + 3, commentEnd))
    IN  [nodes |-> AppendChild(Append(st.nodes, commentNode), st.currentNode,
                               <<Len(st.nodes) + 1>>),
         currentNode |-> st.currentNode,
         pos |-> commentEnd + 3]

\* the comment branch: a comment node with the text between the markers
CommentBranch(h, st) ==
    LET commentEnd == IndexOf(h, COMMENT_CLOSE, st.pos)
        id == Len(st.nodes) + 1
        commentNode == WithContent(NewNode("comment", <<>>, <<>>, st.currentNode),
                                   Substring(h, st.pos + 4, commentEnd))
    IN  [nodes |-> AppendChild(Append(st.nodes, commentNode), st.currentNode, <<id>>),
         currentNode |-> st.currentNode,
         pos |-> commentEnd + 3]

\* the text node of the non-tag branch and of the plain text branch
TextRun(h, st, from) ==
    LET nextTagPos == IndexOf(h, Str("<"), from)
        textEnd == IF nextTagPos = -1 THEN Len(h) ELSE nextTagPos
        id == Len(st.nodes) + 1
        textNode == WithContent(NewNode("text", <<>>, <<>>, Null),
                                Substring(h, st.pos, textEnd))
    IN  [nodes |-> IF textEnd > st.pos
                   THEN AppendChild(Append(st.nodes, textNode), st.currentNode, <<id>>)
                   ELSE st.nodes,
         currentNode |-> st.currentNode,
         pos |-> textEnd]

NonTagBranch(h, st) == TextRun(h, st, st.pos + 1)

TextBranch(h, st) == TextRun(h, st, st.pos)

\* the opening tag branch that makes every opening tag the insertion point
OpenTagBranchAlwaysDescends(h, st) ==
    LET tagEnd == IndexOf(h, Str(">"), st.pos)
        tagContent == Substring(h, st.pos + 1, tagEnd)
        tagName == FirstPart(tagContent)
        attrStr == SubstringFrom(tagContent, Len(tagName))
        id == Len(st.nodes) + 1
        node == NewNode("tag-open", tagName, ParseAttributes(attrStr, 0, <<>>), st.currentNode)
    IN  [nodes |-> AppendChild(Append(st.nodes, node), st.currentNode, <<id>>),
         currentNode |-> id,
         pos |-> tagEnd + 1]

OpenTagBranch(h, st) ==
    LET tagEnd == IndexOf(h, Str(">"), st.pos)
        tagContent == Substring(h, st.pos + 1, tagEnd)
        tagName == FirstPart(tagContent)
        attrStr == SubstringFrom(tagContent, Len(tagName))
        id == Len(st.nodes) + 1
        node == NewNode("tag-open", tagName, ParseAttributes(attrStr, 0, <<>>), st.currentNode)
    IN  [nodes |-> AppendChild(Append(st.nodes, node), st.currentNode, <<id>>),
         currentNode |-> IF tagName \notin VOID_ELEMS THEN id ELSE st.currentNode,
         pos |-> tagEnd + 1]

\* the search for the open tag that looks at the insertion point only
MatchingOpenWithoutWalk(t, parent, tagName) ==
    IF parent = Null \/ t[parent].type = "root" THEN Null
    ELSE IF t[parent].type = "tag-open" /\ t[parent].name = tagName THEN parent
    ELSE Null

RECURSIVE MatchingOpen(_, _, _)
\* the walk up the parent chain for the nearest open tag named tagName
MatchingOpen(t, parent, tagName) ==
    IF parent = Null \/ t[parent].type = "root" THEN Null
    ELSE IF t[parent].type = "tag-open" /\ t[parent].name = tagName THEN parent
    ELSE MatchingOpen(t, t[parent].parent, tagName)

CloseTagBranch(h, st) ==
    LET tagEnd == IndexOf(h, Str(">"), st.pos)
        tagName == Substring(h, st.pos + 2, tagEnd)
        id == Len(st.nodes) + 1
        closeNode == NewNode("tag-close", tagName, <<>>, Null)
        open == MatchingOpen(st.nodes, st.currentNode, tagName)
        target == IF open # Null THEN st.nodes[open].parent ELSE st.currentNode
    IN  [nodes |-> AppendChild(Append(st.nodes, closeNode), target, <<id>>),
         currentNode |-> target,
         pos |-> tagEnd + 1]

\* the heap after node.children = cssTree.children and the closing tag node:
\* css is the result of the CSS parser, id the opening tag
StyleClosed(css, id, parent) ==
    AppendChild(
        Append([css.t EXCEPT ![id].children = css.t[css.root].children],
               [NewNode("tag-close", STYLE, <<>>, parent) EXCEPT !.styleBlock = TRUE]),
        parent, <<Len(css.t) + 1>>)

\* the heap after the opening tag of a style block is appended
StyleOpened(h, st) ==
    LET tagContent == Substring(h, st.pos + 1, IndexOf(h, Str(">"), st.pos))
        attrStr == SubstringFrom(tagContent, Len(FirstPart(tagContent)))
    IN  AppendChild(
            Append(st.nodes,
                   [NewNode("tag-open", STYLE, ParseAttributes(attrStr, 0, <<>>),
                            st.currentNode) EXCEPT !.styleBlock = TRUE]),
            st.currentNode, <<Len(st.nodes) + 1>>)

\* the style branch: the content up to </style> goes to the CSS parser and
\* its tree becomes the children of the opening tag
StyleBranch(h, st) ==
    [nodes |-> StyleClosed(CssParse(CssContent(h, st.pos), StyleOpened(h, st)),
                           Len(st.nodes) + 1, st.currentNode),
     currentNode |-> st.currentNode,
     pos |-> IndexOf(h, STYLE_CLOSE, st.pos) + Len(STYLE_CLOSE)]

\* one pass of while (pos < html.length)
LoopBody(h, st) ==
    LET b == Branch(h, st.pos)
    IN  CASE b = "comment" -> CommentBranch(h, st)
          [] b = "nonTag" -> NonTagBranch(h, st)
          [] b = "open" -> OpenTagBranch(h, st)
          [] b = "style" -> StyleBranch(h, st)
          [] b = "close" -> CloseTagBranch(h, st)
          [] b = "text" -> TextBranch(h, st)
          [] OTHER -> SkipOne(h, st)

\* const root = new Node('root'); let currentNode = root; let pos = 0
ParseStart == [nodes |-> <<NewNode("root", <<>>, <<>>, Null)>>, currentNode |-> 1, pos |-> 0]

RECURSIVE ParseFrom(_, _)
\* the loop, up to its end or to the pass that never ends
ParseFrom(h, st) ==
    IF st.pos < Len(h) /\ Branch(h, st.pos) # "styleHang"
    THEN ParseFrom(h, LoopBody(h, st))
    ELSE st

\* parse(html): the heap holding the tree, whose root is node 1
Parse(h) == ParseFrom(h, ParseStart).nodes

Root == 1

-----------------------------------------------------------------------------
(* Node.toHtml *)

RECURSIVE AttributesString(_)
\* #getNodeAttributesString
AttributesString(attrs) ==
    IF attrs = <<>> THEN <<>>
    ELSE (IF Head(attrs).value = EMPVAL
          THEN <<" ">> \o Head(attrs).name
          ELSE <<" ">> \o Head(attrs).name \o <<"=", "\"">> \o Head(attrs).value \o <<"\"">>)
         \o AttributesString(Tail(attrs))

RECURSIVE ToHtml(_, _, _)
RECURSIVE ChildrenHtml(_, _, _)
\* the concatenation of child.toHtml(showComments) over the children cs
ChildrenHtml(t, cs, showComments) ==
    IF cs = <<>> THEN <<>>
    ELSE ToHtml(t, Head(cs), showComments) \o ChildrenHtml(t, Tail(cs), showComments)

\* t[n].toHtml(showComments)
ToHtml(t, n, showComments) ==
    CASE t[n].type = "text" -> t[n].content
      [] t[n].type = "comment" ->
            IF ~showComments THEN <<>>
            ELSE COMMENT_OPEN \o t[n].content \o COMMENT_CLOSE
      [] t[n].type = "tag-open" ->
            <<"<">> \o t[n].name \o AttributesString(t[n].attributes) \o <<">">>
            \o ChildrenHtml(t, t[n].children, showComments)
      [] t[n].type = "tag-close" -> <<"<", "/">> \o t[n].name \o <<">">>
      [] OTHER -> ChildrenHtml(t, t[n].children, showComments)

-----------------------------------------------------------------------------
(* Array primitives: indices are 0-based as in the source *)

\* the last element of a non-empty array
Last(s) == s[Len(s)]

\* cs.indexOf(n): the first place of n, -1 when absent
IndexOfNode(cs, n) ==
    IF \E i \in 1..Len(cs) : cs[i] = n
    THEN (CHOOSE i \in 1..Len(cs) : cs[i] = n /\ \A j \in 1..(i - 1) : cs[j] # n) - 1
    ELSE -1

\* cs[i]: undefined (Null here) outside the array
ElemAt(cs, i) == IF i >= 0 /\ i < Len(cs) THEN cs[i + 1] ELSE Null

\* cs.splice(start, deleteCount, ...items): a negative start counts from the
\* end, and both arguments are clamped to the array
Splice(cs, start, deleteCount, items) ==
    LET s == IF start < 0 THEN MaxOf(Len(cs) + start, 0) ELSE MinOf(start, Len(cs))
        d == Clamp(deleteCount, Len(cs) - s)
    IN  SubSeq(cs, 1, s) \o items \o SubSeq(cs, s + d + 1, Len(cs))

-----------------------------------------------------------------------------
(* Node: the mutation operations.  An operation that can throw yields the  *)
(* heap as it is when the exception leaves it, and threw = TRUE.           *)

ChildSet(t, n) == {t[n].children[i] : i \in 1..Len(t[n].children)}

RECURSIVE ReachFrom(_, _)
\* the nodes reached from the set S by following children
ReachFrom(t, S) ==
    LET S2 == S \cup UNION {ChildSet(t, m) : m \in S}
    IN  IF S2 = S THEN S ELSE ReachFrom(t, S2)

\* a recursion over the children of n never returns: the call stack overflows
\* (RangeError)
CyclicBelow(t, n) ==
    \E m \in ReachFrom(t, {n}) : m \in ReachFrom(t, ChildSet(t, m))

\* #isVoidElement
IsVoidElement(t, n) == t[n].type = "tag-open" /\ t[n].name \in VOID_ELEMS

\* #findClosingTag
FindClosingTag(t, openingTag) ==
    IF t[openingTag].parent = Null \/ t[openingTag].type # "tag-open" THEN Null
    ELSE LET cs == t[t[openingTag].parent].children
             index == IndexOfNode(cs, openingTag)
             candidate == ElemAt(cs, index + 1)
         IN  IF index = -1 THEN Null
             ELSE IF candidate # Null /\ t[candidate].type = "tag-close"
                     /\ t[candidate].name = t[openingTag].name
             THEN candidate
             ELSE Null

RECURSIVE GetAllDescendants(_, _)
RECURSIVE CollectDescendants(_, _)
\* collectDescendants over the children cs, in the order they are pushed
CollectDescendants(t, cs) ==
    IF cs = <<>> THEN <<>>
    ELSE <<Head(cs)>> \o GetAllDescendants(t, Head(cs)) \o CollectDescendants(t, Tail(cs))

\* #getAllDescendants (of a node with no cycle below it)
GetAllDescendants(t, n) == CollectDescendants(t, t[n].children)

NotExtracted(t, node) ==
    [t |-> t, opening |-> node, closing |-> Null, whitespace |-> Null,
     removedCount |-> 0, startIndex |-> -1]

\* x.parent = p, skipped when x is null
SetParent(t, x, p) == IF x = Null THEN t ELSE [t EXCEPT ![x].parent = p]

\* the whitespace-only text node right before the place index of cs, or null
WhitespaceBefore(t, cs, index) ==
    LET prevNode == ElemAt(cs, index - 1)
    IN  IF index > 0 /\ t[prevNode].type = "text" /\ IsBlank(t[prevNode].content)
        THEN prevNode ELSE Null

\* #extractNode, from the splice on: node is at the place index of its
\* parent's children
ExtractAt(t, node, index, whitespace, closing) ==
    LET startIndex == IF whitespace # Null THEN index - 1 ELSE index
        removedCount == 1 + (IF whitespace # Null THEN 1 ELSE 0)
                          + (IF closing # Null THEN 1 ELSE 0)
    IN  [t |-> SetParent(SetParent(SetParent(
                   [t EXCEPT ![t[node].parent].children = Splice(@, startIndex, removedCount, <<>>)],
                   node, Null), closing, Null), whitespace, Null),
         opening |-> node, closing |-> closing, whitespace |-> whitespace,
         removedCount |-> removedCount, startIndex |-> startIndex]

\* #extractNode, from const index = parent.children.indexOf(node) on
ExtractFrom(t, node, cs) ==
    IF IndexOfNode(cs, node) = -1 THEN NotExtracted(t, node)
    ELSE ExtractAt(t, node, IndexOfNode(cs, node),
                   WhitespaceBefore(t, cs, IndexOfNode(cs, node)),
                   IF t[node].type = "tag-open" THEN FindClosingTag(t, node) ELSE Null)

\* #extractNode
ExtractNode(t, node) ==
    IF t[node].parent = Null THEN NotExtracted(t, node)
    ELSE ExtractFrom(t, node, t[t[node].parent].children)

\* x.parent = parent; parent.children.splice(insertIndex, 0, x), skipped when
\* x is null; the heap and the next insertIndex
SpliceIn(r, parent, x) ==
    IF x = Null THEN r
    ELSE [t |-> [r.t EXCEPT ![x].parent = parent,
                            ![parent].children = Splice(@, r.insertIndex, 0, <<x>>)],
          insertIndex |-> r.insertIndex + 1]

\* the three splices of an extracted node: whitespace, opening, closing
SpliceAll(r, parent, ex) ==
    SpliceIn(SpliceIn(SpliceIn(r, parent, ex.whitespace), parent, ex.opening),
             parent, ex.closing)

\* the insertion index left as it was after an extraction
UnadjustedIndex(t, targetNode, insertIndex, node, ex) == insertIndex

\* if (isSameParent && startIndex !== -1 && startIndex < insertIndex)
\*     insertIndex -= removedCount, within if (node.parent)
AdjustedIndex(t, targetNode, insertIndex, node, ex) ==
    IF /\ t[node].parent # Null
       /\ t[node].parent = t[targetNode].parent
       /\ ex.startIndex # -1
       /\ ex.startIndex < insertIndex
    THEN insertIndex - ex.removedCount
    ELSE insertIndex

\* const extracted = this.#extractNode(node), within if (node.parent)
ExtractIfParented(t, node) ==
    IF t[node].parent # Null THEN ExtractNode(t, node) ELSE NotExtracted(t, node)

RECURSIVE InsertLoop(_, _, _)
RECURSIVE InsertOne(_, _, _, _, _)
\* one pass of the loop, after the extraction ex of Head(ns).  Extracting a
\* node that holds targetNode leaves targetNode.parent null, and
\* targetNode.parent.children then raises a TypeError.
InsertOne(t, targetNode, insertIndex, ns, ex) ==
    IF ex.t[targetNode].parent = Null THEN [t |-> ex.t, threw |-> TRUE]
    ELSE InsertLoop(
             SpliceAll([t |-> ex.t,
                        insertIndex |-> AdjustedIndex(t, targetNode, insertIndex, Head(ns), ex)],
                       ex.t[targetNode].parent, ex),
             targetNode, Tail(ns))

\* the for loop of insertAfter and of insertBefore: the two are the same text
InsertLoop(r, targetNode, ns) ==
    IF ns = <<>> THEN [t |-> r.t, threw |-> FALSE]
    ELSE InsertOne(r.t, targetNode, r.insertIndex, ns, ExtractIfParented(r.t, Head(ns)))

\* insertAfter and insertBefore, from the indexOf of the target on
InsertAt(t, targetNode, offset, ns) ==
    IF t[targetNode].parent = Null THEN [t |-> t, threw |-> TRUE]
    ELSE IF IndexOfNode(t[t[targetNode].parent].children, targetNode) = -1
    THEN [t |-> t, threw |-> TRUE]
    ELSE InsertLoop([t |-> t,
                     insertIndex |-> IndexOfNode(t[t[targetNode].parent].children, targetNode)
                                     + offset],
                    targetNode, ns)

\* the target of insertAfter taken to be the node itself
AfterThis(t, this) == this

\* the target of insertAfter: the closing tag of a non-void tag-open that has one
AfterTarget(t, this) ==
    IF t[this].type = "tag-open" /\ ~IsVoidElement(t, this) /\ FindClosingTag(t, this) # Null
    THEN FindClosingTag(t, this)
    ELSE this

\* insertAfter that returns without a change when this has no parent
InsertAfterQuietOnDetached(t, this, ns) ==
    IF t[this].parent = Null THEN [t |-> t, threw |-> FALSE]
    ELSE InsertAt(t, AfterTarget(t, this), 1, ns)

\* this.insertAfter(...ns)
InsertAfter(t, this, ns) ==
    IF t[this].parent = Null THEN [t |-> t, threw |-> TRUE]
    ELSE InsertAt(t, AfterTarget(t, this), 1, ns)

\* the target of insertBefore: the opening tag right before a tag-close of its name
BeforeTarget(t, this, openCandidate) ==
    IF t[this].type = "tag-close" /\ openCandidate # Null
       /\ t[openCandidate].type = "tag-open" /\ t[openCandidate].name = t[this].name
    THEN openCandidate
    ELSE this

\* this.insertBefore(...ns)
InsertBefore(t, this, ns) ==
    IF t[this].parent = Null THEN [t |-> t, threw |-> TRUE]
    ELSE IF t[this].type = "tag-close" /\ IndexOfNode(t[t[this].parent].children, this) = -1
    THEN [t |-> t, threw |-> TRUE]
    ELSE InsertAt(t,
                  BeforeTarget(t, this,
                               ElemAt(t[t[this].parent].children,
                                      IndexOfNode(t[t[this].parent].children, this) - 1)),
                  0, ns)

\* remove() with the two pair branches left out
RemoveOnlyThis(t, this) ==
    IF t[this].parent = Null \/ IndexOfNode(t[t[this].parent].children, this) = -1 THEN t
    ELSE [t EXCEPT ![t[this].parent].children =
                       Splice(@, IndexOfNode(t[t[this].parent].children, this), 1, <<>>),
                   ![this].parent = Null]

\* this.remove(): only this.parent is cleared
Remove(t, this) ==
    IF t[this].parent = Null THEN t
    ELSE
    LET parent == t[this].parent
        cs == t[parent].children
        index == IndexOfNode(cs, this)
        nextSibling == ElemAt(cs, index + 1)
        prevSibling == ElemAt(cs, index - 1)
    IN  IF index = -1 THEN t
        ELSE IF t[this].type = "tag-open" /\ index + 1 < Len(cs)
                /\ t[nextSibling].type = "tag-close" /\ t[nextSibling].name = t[this].name
        THEN [t EXCEPT ![parent].children = Splice(cs, index, 2, <<>>), ![this].parent = Null]
        ELSE IF t[this].type = "tag-close" /\ index > 0
                /\ t[prevSibling].type = "tag-open" /\ t[prevSibling].name = t[this].name
        THEN [t EXCEPT ![parent].children = Splice(cs, index - 1, 2, <<>>), ![this].parent = Null]
        ELSE [t EXCEPT ![parent].children = Splice(cs, index, 1, <<>>), ![this].parent = Null]

RECURSIVE LeaveAll(_, _)
\* the first loop of replaceWith with the extraction left out
LeaveAll(t, ns) ==
    IF ns = <<>> THEN [t |-> t, data |-> <<>>]
    ELSE [t |-> t, data |-> <<NotExtracted(t, Head(ns))>> \o LeaveAll(t, Tail(ns)).data]

RECURSIVE ExtractAll(_, _)
RECURSIVE ExtractRest(_, _)
\* the first loop of replaceWith: the heap and the extracted data, in order
ExtractAll(t, ns) ==
    IF ns = <<>> THEN [t |-> t, data |-> <<>>]
    ELSE ExtractRest(ExtractIfParented(t, Head(ns)), Tail(ns))

ExtractRest(ex, ns) ==
    [t |-> ExtractAll(ex.t, ns).t, data |-> <<ex>> \o ExtractAll(ex.t, ns).data]

RECURSIVE InsertExtracted(_, _, _)
\* the second loop of replaceWith
InsertExtracted(r, parent, data) ==
    IF data = <<>> THEN r.t
    ELSE InsertExtracted(SpliceAll(r, parent, Head(data)), parent, Tail(data))

RECURSIVE ClearParents(_, _)
\* for (const node of nodesToDelete) node.parent = null
ClearParents(t, ns) ==
    IF ns = <<>> THEN t
    ELSE ClearParents([t EXCEPT ![Head(ns)].parent = Null], Tail(ns))

\* const nodesToDelete = [this]; the closing tag and all descendants are pushed
NodesToDelete(t, this, closingTag) ==
    <<this>>
    \o (IF closingTag # Null THEN <<closingTag>> ELSE <<>>)
    \o (IF t[this].type = "tag-open" THEN GetAllDescendants(t, this) ELSE <<>>)

\* replaceWith, from the extraction of the new nodes on
ReplaceAt(t, this, parent, index, closingTag, extracted) ==
    ClearParents(
        InsertExtracted(
            [t |-> [extracted.t EXCEPT ![parent].children =
                        Splice(@, index, IF closingTag # Null THEN 2 ELSE 1, <<>>)],
             insertIndex |-> index],
            parent, extracted.data),
        NodesToDelete(t, this, closingTag))

\* this.replaceWith(...newNodes)
ReplaceWith(t, this, newNodes) ==
    IF t[this].parent = Null THEN [t |-> t, threw |-> TRUE]
    ELSE IF IndexOfNode(t[t[this].parent].children, this) = -1 THEN [t |-> t, threw |-> TRUE]
    ELSE IF t[this].type = "tag-open" /\ CyclicBelow(t, this) THEN [t |-> t, threw |-> TRUE]
    ELSE [t |-> ReplaceAt(t, this, t[this].parent,
                          IndexOfNode(t[t[this].parent].children, this),
                          IF t[this].type = "tag-open" THEN FindClosingTag(t, this) ELSE Null,
                          ExtractAll(t, newNodes)),
          threw |-> FALSE]

-----------------------------------------------------------------------------
(* Node.insertAdjacentHTML *)

RECURSIVE FindRootFrom(_, _, _)
\* the loop of #findRoot with k steps left: the node whose parent is null,
\* Null when the parent chain of n has no end
FindRootFrom(t, n, k) ==
    IF t[n].parent = Null THEN n
    ELSE IF k = 0 THEN Null
    ELSE FindRootFrom(t, t[n].parent, k - 1)

\* #findRoot
FindRoot(t, this) == FindRootFrom(t, this, Len(t))

\* parser.parse(h) with the heap t: the new root is node Len(t) + 1
ParseOnto(t, h) ==
    ParseFrom(h, [nodes |-> Append(t, NewNode("root", <<>>, <<>>, Null)),
                  currentNode |-> Len(t) + 1, pos |-> 0]).nodes

\* the redirection of a closing tag to the opening tag right before it
AdjacentTarget(t, this) ==
    IF t[this].type = "tag-close"
       /\ IndexOfNode(t[t[this].parent].children, this) # -1
    THEN BeforeTarget(t, this,
                      ElemAt(t[t[this].parent].children,
                             IndexOfNode(t[t[this].parent].children, this) - 1))
    ELSE this

RECURSIVE SetParents(_, _, _)
\* nodesToInsert[i].parent = targetNode for every i
SetParents(t, ns, targetNode) ==
    IF ns = <<>> THEN t
    ELSE SetParents([t EXCEPT ![Head(ns)].parent = targetNode], Tail(ns), targetNode)

\* case 'afterbegin': the nodes are unshifted from the last to the first
AfterBegin(t, targetNode, ns) ==
    [SetParents(t, ns, targetNode) EXCEPT ![targetNode].children = ns \o @]

\* case 'afterbegin' and case 'beforeend'
Inside(t, targetNode, position, ns) ==
    IF t[targetNode].type # "tag-open" THEN [t |-> t, threw |-> TRUE]
    ELSE IF t[targetNode].name \in VOID_ELEMS THEN [t |-> t, threw |-> TRUE]
    ELSE IF position = "afterbegin" THEN [t |-> AfterBegin(t, targetNode, ns), threw |-> FALSE]
    ELSE [t |-> AppendChild(t, targetNode, ns), threw |-> FALSE]

\* switch (position)
Routed(t, targetNode, position, ns) ==
    IF position = "beforebegin" THEN InsertBefore(t, targetNode, ns)
    ELSE IF position = "afterend" THEN InsertAfter(t, targetNode, ns)
    ELSE Inside(t, targetNode, position, ns)

\* insertAdjacentHTML from the parse on: t holds the parsed fragment under
\* parsedRoot
AdjacentFrom(t, this, position, parsedRoot) ==
    IF t[parsedRoot].children = <<>> THEN [t |-> t, threw |-> FALSE]
    ELSE Routed(t, AdjacentTarget(t, this), position, t[parsedRoot].children)

\* this.insertAdjacentHTML(position, h) with a valid position, on a node whose
\* parent chain has an end.  root.parser is set by parse on the nodes of type
\* root and on no other node.
InsertAdjacentHTML(t, this, position, h) ==
    IF t[FindRoot(t, this)].type # "root" THEN [t |-> t, threw |-> TRUE]
    ELSE AdjacentFrom(ParseOnto(t, h), this, position, Len(t) + 1)

-----------------------------------------------------------------------------
(* Node.querySelectorAll, for selectors made of tag names, [attribute]      *)
(* groups, spaces and :not(): the model has no selector with '#', '.', '='  *)
(* or ','.                                                                  *)

RECURSIVE SplitWhitespace(_, _)
\* s.split(REGEX.whitespace), cur the part being read
SplitWhitespace(s, cur) ==
    IF s = <<>> THEN <<cur>>
    ELSE IF Whitespace(Head(s)) THEN <<cur>> \o SplitWhitespace(TrimStart(s), <<>>)
    ELSE SplitWhitespace(Tail(s), Append(cur, Head(s)))

RECURSIVE JoinSpace(_)
\* parts.join(' ')
JoinSpace(parts) ==
    IF parts = <<>> THEN <<>>
    ELSE IF Len(parts) = 1 THEN parts[1]
    ELSE parts[1] \o <<" ">> \o JoinSpace(Tail(parts))

RECURSIVE AttrGroupsEnd(_, _)
\* the end of the run of (\[[^\]]+\])* that starts at i
AttrGroupsEnd(s, i) ==
    IF At(s, i) = "[" /\ IndexOf(s, Str("]"), i + 1) > i + 1
    THEN AttrGroupsEnd(s, IndexOf(s, Str("]"), i + 1) + 1)
    ELSE i

RECURSIVE SelectorParts(_, _)
\* selector.match(REGEX.querySelectorParts).filter(Boolean).join(''), from
\* the position i on: what no match covers is dropped
SelectorParts(s, i) ==
    IF i >= Len(s) THEN <<>>
    ELSE IF AttrGroupsEnd(s, WordRunEnd(s, i)) = i THEN SelectorParts(s, i + 1)
    ELSE Substring(s, i, AttrGroupsEnd(s, WordRunEnd(s, i)))
         \o SelectorParts(s, AttrGroupsEnd(s, WordRunEnd(s, i)))

\* tagName: the word run at the start of the parts, which is never empty;
\* the empty sequence stands for null
TagName(parts) == Substring(parts, 0, WordRunEnd(parts, 0))

RECURSIVE AttributeNames(_, _)
\* the contents of the [..] groups of the parts, from the position i on
AttributeNames(parts, i) ==
    IF IndexOf(parts, Str("["), i) = -1 THEN <<>>
    ELSE IF IndexOf(parts, Str("]"), IndexOf(parts, Str("["), i) + 1)
            <= IndexOf(parts, Str("["), i) + 1
    THEN <<>>
    ELSE <<Substring(parts, IndexOf(parts, Str("["), i) + 1,
                     IndexOf(parts, Str("]"), IndexOf(parts, Str("["), i) + 1))>>
         \o AttributeNames(parts, IndexOf(parts, Str("]"), IndexOf(parts, Str("["), i) + 1) + 1)

\* node.getAttribute(name) !== undefined
HasAttribute(t, n, name) ==
    \E i \in 1..Len(t[n].attributes) : t[n].attributes[i].name = name

\* the test of one node in the traversal of #executeBasicSelector
SelectorMatches(t, n, parts) ==
    /\ t[n].type = "tag-open"
    /\ (TagName(parts) # <<>> => t[n].name = TagName(parts))
    /\ \A i \in 1..Len(AttributeNames(parts, 0)) :
           HasAttribute(t, n, AttributeNames(parts, 0)[i])

RECURSIVE BreadthFirst(_, _)
\* the order in which the queue hands out the nodes
BreadthFirst(t, queue) ==
    IF queue = <<>> THEN <<>>
    ELSE <<Head(queue)>> \o BreadthFirst(t, Tail(queue) \o t[Head(queue)].children)

RECURSIVE Keep(_, _, _)
\* the nodes of ns that pass the test, in their order
Keep(ns, Test(_), seen) ==
    IF ns = <<>> THEN <<>>
    ELSE IF Test(Head(ns)) /\ Head(ns) \notin seen
    THEN <<Head(ns)>> \o Keep(Tail(ns), Test, seen)
    ELSE Keep(Tail(ns), Test, seen)

\* the members of the sequence ns
Members(ns) == {ns[i] : i \in 1..Len(ns)}

RECURSIVE ExecuteBasicSelector(_, _, _)
RECURSIVE DescendantsOfAll(_, _, _, _)
\* the loop over the ancestors of a descendant selector: results without
\* duplicates
DescendantsOfAll(t, ancestors, descendantSelector, results) ==
    IF ancestors = <<>> THEN results
    ELSE DescendantsOfAll(t, Tail(ancestors), descendantSelector,
             results \o Keep(ExecuteBasicSelector(t, Head(ancestors), descendantSelector),
                             LAMBDA n : TRUE, Members(results)))

\* #executeBasicSelector
ExecuteBasicSelector(t, this, selector) ==
    IF \E i \in 1..Len(selector) : selector[i] = " "
    THEN DescendantsOfAll(t,
             ExecuteBasicSelector(t, this, SplitWhitespace(selector, <<>>)[1]),
             JoinSpace(Tail(SplitWhitespace(selector, <<>>))), <<>>)
    ELSE Keep(BreadthFirst(t, <<this>>),
              LAMBDA n : SelectorMatches(t, n, SelectorParts(selector, 0)), {})

NOT_OPEN == <<":", "n", "o", "t", "(">>

RECURSIVE NotSelectors(_, _)
\* the inner selectors of the :not(...) of the selector, trimmed
NotSelectors(s, i) ==
    IF IndexOf(s, NOT_OPEN, i) = -1 THEN <<>>
    ELSE IF IndexOf(s, Str(")"), IndexOf(s, NOT_OPEN, i) + 5) <= IndexOf(s, NOT_OPEN, i) + 5
    THEN NotSelectors(s, IndexOf(s, NOT_OPEN, i) + 1)
    ELSE <<Trim(Substring(s, IndexOf(s, NOT_OPEN, i) + 5,
                          IndexOf(s, Str(")"), IndexOf(s, NOT_OPEN, i) + 5)))>>
         \o NotSelectors(s, IndexOf(s, Str(")"), IndexOf(s, NOT_OPEN, i) + 5) + 1)

RECURSIVE WithoutNots(_, _)
\* selector.replace(REGEX.notSelector, '') from the position i on
WithoutNots(s, i) ==
    IF IndexOf(s, NOT_OPEN, i) = -1 THEN SubstringFrom(s, i)
    ELSE IF IndexOf(s, Str(")"), IndexOf(s, NOT_OPEN, i) + 5) <= IndexOf(s, NOT_OPEN, i) + 5
    THEN Substring(s, i, IndexOf(s, NOT_OPEN, i) + 1)
         \o WithoutNots(s, IndexOf(s, NOT_OPEN, i) + 1)
    ELSE Substring(s, i, IndexOf(s, NOT_OPEN, i))
         \o WithoutNots(s, IndexOf(s, Str(")"), IndexOf(s, NOT_OPEN, i) + 5) + 1)

\* the candidates: the matches of the main selector under this, every
\* tag-open under this when there is no main selector
CandidateNodes(t, this, mainSelector) ==
    IF mainSelector = <<>>
    THEN Keep(BreadthFirst(t, <<this>>), LAMBDA n : t[n].type = "tag-open", {})
    ELSE ExecuteBasicSelector(t, this, mainSelector)

\* the root the :not() selectors are matched from taken to be this
NotRootThis(t, this) == this

\* const root = this.#findRoot(), for the :not() selectors
NotRoot(t, this) == FindRoot(t, this)

\* #findMatchingNodes
FindMatchingNodes(t, this, selector) ==
    Keep(CandidateNodes(t, this, Trim(WithoutNots(selector, 0))),
         LAMBDA n : \A i \in 1..Len(NotSelectors(selector, 0)) :
                        n \notin Members(ExecuteBasicSelector(t, NotRoot(t, this),
                                                              NotSelectors(selector, 0)[i])),
         {})

\* querySelectorAll of a selector without a comma
QuerySelectorAll(t, this, selector) == FindMatchingNodes(t, this, selector)

-----------------------------------------------------------------------------
(* Node.updateAttribute *)

RECURSIVE Split(_, _)
\* s.split(separator): the characters of s for the empty separator
Split(s, separator) ==
    IF separator = <<>> THEN [i \in 1..Len(s) |-> <<s[i]>>]
    ELSE IF IndexOf(s, separator, 0) = -1 THEN <<s>>
    ELSE <<Substring(s, 0, IndexOf(s, separator, 0))>>
         \o Split(SubstringFrom(s, IndexOf(s, separator, 0) + Len(separator)), separator)

\* this.attributes[name]
AttributeValue(attrs, name) ==
    attrs[CHOOSE i \in 1..Len(attrs) : attrs[i].name = name].value

\* updateAttribute that appends the value whatever the tokens are
AppendedAlways(attrs, name, value, separator) ==
    IF ~\E i \in 1..Len(attrs) : attrs[i].name = name
    THEN SetAttr(attrs, name, value)
    ELSE SetAttr(attrs, name, AttributeValue(attrs, name) \o separator \o value)

\* the attributes of a node after updateAttribute(name, value, separator)
Updated(attrs, name, value, separator) ==
    IF ~\E i \in 1..Len(attrs) : attrs[i].name = name
    THEN SetAttr(attrs, name, value)
    ELSE IF value \in Members(Split(AttributeValue(attrs, name), separator))
    THEN attrs
    ELSE SetAttr(attrs, name, AttributeValue(attrs, name) \o separator \o value)

\* this.updateAttribute(name, value, separator)
UpdateAttribute(t, this, name, value, separator) ==
    [t EXCEPT ![this].attributes = Updated(@, name, value, separator)]

-----------------------------------------------------------------------------
(* Node[Symbol.iterator]: the closure variables of one iterator are the    *)
(* record it; patched says Node.prototype.remove is the iterator's wrapper. *)

\* the value of a call that overflowed the stack (RangeError)
Overflow == -1

\* let currentNode = ...; started, skipChildrenForCurrentNode, wasRemoved = false
NewIterator(t, this) ==
    [this |-> this,
     currentNode |-> IF t[this].type = "root" /\ Len(t[this].children) > 0
                     THEN t[this].children[1] ELSE this,
     started |-> FALSE,
     skipChildrenForCurrentNode |-> FALSE,
     wasRemoved |-> FALSE,
     patched |-> TRUE]

RECURSIVE AncestryNext(_, _, _)
\* getNextNodeInAncestry, with the depth left before the stack overflows: a
\* parent chain longer than the heap is a cycle
AncestryNext(t, node, depth) ==
    IF node = Null \/ (t[node].type = "root" /\ t[node].parent = Null) THEN Null
    ELSE IF depth = 0 THEN Overflow
    ELSE LET siblings == t[t[node].parent].children
             currentIndex == IndexOfNode(siblings, node)
         IN  IF t[node].parent # Null /\ currentIndex < Len(siblings) - 1
             THEN siblings[currentIndex + 2]
             ELSE AncestryNext(t, t[node].parent, depth - 1)

GetNextNodeInAncestry(t, node) == AncestryNext(t, node, Len(t) + 1)

\* getNextNode
GetNextNode(t, it, node) ==
    IF it.wasRemoved
    THEN IF t[node].parent # Null THEN GetNextNodeInAncestry(t, t[node].parent) ELSE Null
    ELSE IF ~it.skipChildrenForCurrentNode /\ Len(t[node].children) > 0
    THEN t[node].children[1]
    ELSE IF t[node].type = "root" /\ t[node].parent = Null THEN Null
    ELSE IF t[node].parent = Null THEN GetNextNodeInAncestry(t, Null)
    ELSE LET siblings == t[t[node].parent].children
             currentIndex == IndexOfNode(siblings, node)
         IN  IF currentIndex = -1 THEN GetNextNodeInAncestry(t, t[node].parent)
             ELSE IF currentIndex < Len(siblings) - 1 THEN siblings[currentIndex + 2]
             ELSE GetNextNodeInAncestry(t, t[node].parent)

\* next(): the iterator afterwards and the result { value, done }
IteratorNext(t, it) ==
    IF it.currentNode = Null
    THEN [it |-> [it EXCEPT !.patched = FALSE], value |-> Null, done |-> TRUE, threw |-> FALSE]
    ELSE IF ~it.started
    THEN [it |-> [it EXCEPT !.started = TRUE],
          value |-> it.currentNode, done |-> FALSE, threw |-> FALSE]
    ELSE
    LET reset == [it EXCEPT !.wasRemoved = FALSE, !.skipChildrenForCurrentNode = FALSE]
        nextNode == GetNextNode(t, reset, it.currentNode)
        nodeToReturn == it.currentNode
    IN  IF nextNode = Overflow
        THEN [it |-> reset, value |-> Null, done |-> FALSE, threw |-> TRUE]
        ELSE [it |-> [reset EXCEPT !.currentNode = nextNode, !.patched = (nextNode # Null)],
              value |-> nodeToReturn, done |-> FALSE, threw |-> FALSE]

\* the longest run of a for...of loop that is followed
MaxYield == 12

RECURSIVE Drain(_, _, _)
\* the values a loop over the iterator receives, up to the first n of them
Drain(t, it, n) ==
    LET r == IteratorNext(t, it)
    IN  IF n = 0 \/ r.done \/ r.threw THEN <<>>
        ELSE <<r.value>> \o Drain(t, r.it, n - 1)

\* [...this], cut at MaxYield values
Traversal(t, this) == Drain(t, NewIterator(t, this), MaxYield)

-----------------------------------------------------------------------------
(* The inputs of the parser: texts put together from lexical pieces *)

Piece == [
    oa   |-> [kind |-> "open",    name |-> "a",  canon |-> TRUE,  chars |-> <<"<", "a", ">">>],
    ca   |-> [kind |-> "close",   name |-> "a",  canon |-> TRUE,  chars |-> <<"<", "/", "a", ">">>],
    ob   |-> [kind |-> "open",    name |-> "b",  canon |-> TRUE,  chars |-> <<"<", "b", ">">>],
    cb   |-> [kind |-> "close",   name |-> "b",  canon |-> TRUE,  chars |-> <<"<", "/", "b", ">">>],
    oc   |-> [kind |-> "open",    name |-> "c",  canon |-> TRUE,  chars |-> <<"<", "c", ">">>],
    cc   |-> [kind |-> "close",   name |-> "c",  canon |-> TRUE,  chars |-> <<"<", "/", "c", ">">>],
    br   |-> [kind |-> "void",    name |-> "br", canon |-> TRUE,  chars |-> <<"<", "b", "r", ">">>],
    x    |-> [kind |-> "text",    name |-> "",   canon |-> TRUE,  chars |-> <<"x">>],
    sp   |-> [kind |-> "text",    name |-> "",   canon |-> TRUE,  chars |-> <<" ">>],
    cm   |-> [kind |-> "comment", name |-> "",   canon |-> TRUE,  chars |-> <<"<", "!", "-", "-", "c", "-", "-", ">">>],
    oaq  |-> [kind |-> "open",    name |-> "a",  canon |-> TRUE,  chars |-> <<"<", "a", " ", "k", "=", "\"", "v", "\"", ">">>],
    oak  |-> [kind |-> "open",    name |-> "a",  canon |-> TRUE,  chars |-> <<"<", "a", " ", "k", ">">>],
    oav  |-> [kind |-> "open",    name |-> "a",  canon |-> FALSE, chars |-> <<"<", "a", " ", "k", "=", "v", ">">>],
    oae  |-> [kind |-> "open",    name |-> "a",  canon |-> FALSE, chars |-> <<"<", "a", " ", "k", "=", "\"", "\"", ">">>],
    obk  |-> [kind |-> "open",    name |-> "b",  canon |-> TRUE,  chars |-> <<"<", "b", " ", "k", ">">>],
    oaxy |-> [kind |-> "open",    name |-> "a",  canon |-> TRUE,  chars |-> <<"<", "a", " ", "k", "=", "\"", "x", " ", "y", "\"", ">">>],
    lt   |-> [kind |-> "stray",   name |-> "",   canon |-> FALSE, chars |-> <<"<">>],
    lts  |-> [kind |-> "stray",   name |-> "",   canon |-> FALSE, chars |-> <<"<", "/">>],
    co   |-> [kind |-> "stray",   name |-> "",   canon |-> FALSE, chars |-> <<"<", "!", "-", "-">>],
    os   |-> [kind |-> "style",   name |-> "style", canon |-> TRUE, chars |-> <<"<", "s", "t", "y", "l", "e", ">">>],
    cs   |-> [kind |-> "style",   name |-> "style", canon |-> TRUE, chars |-> <<"<", "/", "s", "t", "y", "l", "e", ">">>],
    cbr  |-> [kind |-> "close",   name |-> "br", canon |-> TRUE,  chars |-> <<"<", "/", "b", "r", ">">>],
    lb   |-> [kind |-> "css",     name |-> "",   canon |-> TRUE,  chars |-> <<"{">>],
    rb   |-> [kind |-> "css",     name |-> "",   canon |-> TRUE,  chars |-> <<"}">>],
    ra   |-> [kind |-> "css",     name |-> "",   canon |-> TRUE,  chars |-> <<"a", "{">>],
    bad  |-> [kind |-> "css",     name |-> "",   canon |-> FALSE, chars |-> <<"b", ";">>],
    good |-> [kind |-> "css",     name |-> "",   canon |-> TRUE,  chars |-> <<"c", ":", "d", ";">>],
    at   |-> [kind |-> "css",     name |-> "",   canon |-> TRUE,  chars |-> <<"@", "m">>],
    ccm  |-> [kind |-> "css",     name |-> "",   canon |-> TRUE,  chars |-> <<"/", "*", "c", "*", "/">>]]

\* texts of tags, text and comments, the tags written in several ways
MarkupPieces == {"oa", "ca", "ob", "cb", "br", "x", "cm", "oaq", "oak", "oav", "oae"}
\* texts with stray openers
StrayPieces == {"oa", "ca", "x", "sp", "lt", "lts", "co", "br", "cbr"}
\* texts with style elements
StylePieces == {"os", "cs", "lb", "rb", "x"}
\* style sheets: a{ then b; and c:d; and } and {, a space, @m, /*c*/
CssPieces == {"ra", "bad", "good", "rb", "lb", "sp", "at", "ccm"}

MaxPieces == 4

SeqsUpTo(S, n) == UNION {[1..k -> S] : k \in 0..n}

RECURSIVE Flatten(_)
Flatten(ps) == IF ps = <<>> THEN <<>> ELSE Piece[Head(ps)].chars \o Flatten(Tail(ps))

-----------------------------------------------------------------------------
(* The parser as a state machine *)

ParserState == [nodes |-> nodes, currentNode |-> currentNode, pos |-> pos]

NoOp == [op |-> "none", this |-> Null, node |-> Null, threw |-> FALSE]

\* no operation on the tree yet
NoHistory ==
    /\ prev = <<>>
    /\ lastOp = NoOp
    /\ opCount = 0
    /\ kinds = {}

NoIterator ==
    [this |-> Null, currentNode |-> Null, started |-> FALSE, skipChildrenForCurrentNode |-> FALSE,
     wasRemoved |-> FALSE, patched |-> FALSE]

\* no loop over the tree yet
NoLoop ==
    /\ iter = NoIterator
    /\ yielded = <<>>
    /\ removed = <<>>
    /\ skipped = <<>>

InitParse ==
    /\ pieces \in SeqsUpTo(MarkupPieces, MaxPieces) \cup SeqsUpTo(StrayPieces, MaxPieces)
                   \cup SeqsUpTo(StylePieces, MaxPieces)
    /\ html = Flatten(pieces)
    /\ pos = ParseStart.pos
    /\ currentNode = ParseStart.currentNode
    /\ nodes = ParseStart.nodes
    /\ pc = "parse"
    /\ NoHistory
    /\ NoLoop

\* a pass of the loop that takes branch b
Pass(b, next) ==
    /\ pc = "parse"
    /\ pos < Len(html)
    /\ Branch(html, pos) = b
    /\ nodes' = next.nodes
    /\ currentNode' = next.currentNode
    /\ pos' = next.pos
    /\ UNCHANGED <<pieces, html, pc, history, loop>>

ParseComment == Pass("comment", CommentBranch(html, ParserState))
ParseCommentUnterminated == Pass("commentSkip", SkipOne(html, ParserState))
ParseNonTag == Pass("nonTag", NonTagBranch(html, ParserState))
ParseOpenTag == Pass("open", OpenTagBranch(html, ParserState))
ParseOpenTagUnterminated == Pass("openSkip", SkipOne(html, ParserState))
ParseStyleTag == Pass("style", StyleBranch(html, ParserState))
ParseCloseTag == Pass("close", CloseTagBranch(html, ParserState))
ParseCloseTagUnterminated == Pass("closeSkip", SkipOne(html, ParserState))
ParseText == Pass("text", TextBranch(html, ParserState))

\* the pass in which cssParser.parse(cssContent) never returns: the opening
\* tag is in the tree and the loop goes no further
ParseStyleTagHangs ==
    /\ pc = "parse"
    /\ pos < Len(html)
    /\ Branch(html, pos) = "styleHang"
    /\ nodes' = StyleOpened(html, ParserState)
    /\ pc' = "hung"
    /\ UNCHANGED <<pieces, html, pos, currentNode, history, loop>>

\* return root
ParseReturn ==
    /\ pc = "parse"
    /\ pos >= Len(html)
    /\ pc' = "ready"
    /\ UNCHANGED <<pieces, html, pos, currentNode, nodes, history, loop>>

NextParse ==
    \/ ParseComment
    \/ ParseCommentUnterminated
    \/ ParseNonTag
    \/ ParseOpenTag
    \/ ParseOpenTagUnterminated
    \/ ParseStyleTag
    \/ ParseStyleTagHangs
    \/ ParseCloseTag
    \/ ParseCloseTagUnterminated
    \/ ParseText
    \/ ParseReturn

SpecParse == InitParse /\ [][NextParse]_vars

\* the stepwise parser and the operator Parse agree
ParseAgrees == pc = "ready" => nodes = Parse(html)

-----------------------------------------------------------------------------
(* Operations on a parsed tree *)

\* the documents the operations are applied to
TreeInputs == {
    <<"oa", "ob", "oc", "x", "cc", "cb", "ca">>,
    <<"oa", "sp", "ob", "x", "cb", "ca", "oc", "cc">>,
    <<"oa", "ca", "oa", "x", "ca">>,
    <<"oa", "ob", "ca", "br", "x">>,
    <<"oa", "ca", "sp", "br", "sp", "oc", "cc">>}

\* the operations on one tree that are followed
MaxOps == 2

\* the state after root = parser.parse(html)
InitTree ==
    /\ pieces \in TreeInputs
    /\ html = Flatten(pieces)
    /\ pos = ParseFrom(html, ParseStart).pos
    /\ currentNode = ParseFrom(html, ParseStart).currentNode
    /\ nodes = Parse(html)
    /\ pc = "ready"
    /\ NoHistory
    /\ NoLoop

NodeIds == 1..Len(nodes)

\* the nodes a caller can hold: the root it got from parse and the nodes that
\* are not roots (the root of a fragment parsed inside insertAdjacentHTML is
\* a local of that call)
LiveIds == {n \in NodeIds : n = Root \/ nodes[n].type # "root"}

\* the nodes a caller passes as arguments: any node but the root
ArgIds == LiveIds \ {Root}

\* the positions of insertAdjacentHTML
Positions == {"beforebegin", "afterbegin", "beforeend", "afterend"}

\* the fragments handed to insertAdjacentHTML: '' and '<b>x</b>'
Fragments == {<<>>, <<"ob", "x", "cb">>}

\* an operation op of this with the argument node leaves the heap t
Operate(op, this, node, t, threw) ==
    /\ pc = "ready"
    /\ opCount < MaxOps
    /\ nodes' = t
    /\ prev' = nodes
    /\ lastOp' = [op |-> op, this |-> this, node |-> node, threw |-> threw]
    /\ opCount' = opCount + 1
    /\ kinds' = kinds \cup {op}
    /\ UNCHANGED <<pieces, html, pos, currentNode, pc, loop>>

DoAppendChild ==
    \E this \in LiveIds, node \in ArgIds :
        Operate("appendChild", this, node, AppendChild(nodes, this, <<node>>), FALSE)

DoInsertBefore ==
    \E this \in LiveIds, node \in ArgIds :
        LET r == InsertBefore(nodes, this, <<node>>)
        IN  Operate("insertBefore", this, node, r.t, r.threw)

DoInsertAfter ==
    \E this \in LiveIds, node \in ArgIds :
        LET r == InsertAfter(nodes, this, <<node>>)
        IN  Operate("insertAfter", this, node, r.t, r.threw)

DoReplaceWith ==
    \E this \in LiveIds, node \in ArgIds :
        LET r == ReplaceWith(nodes, this, <<node>>)
        IN  Operate("replaceWith", this, node, r.t, r.threw)

DoRemove ==
    \E this \in LiveIds :
        Operate("remove", this, Null, Remove(nodes, this), FALSE)

\* this.insertAdjacentHTML(position, html) that returns or raises
DoInsertAdjacentHTML ==
    \E this \in LiveIds, position \in Positions, fragment \in Fragments :
        /\ pc = "ready"
        /\ opCount < MaxOps
        /\ FindRoot(nodes, this) # Null
        /\ nodes' = InsertAdjacentHTML(nodes, this, position, Flatten(fragment)).t
        /\ prev' = nodes
        /\ lastOp' = [op |-> "insertAdjacentHTML", this |-> this, node |-> Null,
                      threw |-> InsertAdjacentHTML(nodes, this, position,
                                                   Flatten(fragment)).threw,
                      position |-> position, fragment |-> fragment]
        /\ opCount' = opCount + 1
        /\ kinds' = kinds \cup {"insertAdjacentHTML"}
        /\ UNCHANGED <<pieces, html, pos, currentNode, pc, loop>>

\* this.insertAdjacentHTML(position, html) on a node whose parent chain is a
\* cycle: the loop of #findRoot has no end and the call never returns
DoInsertAdjacentHTMLHangs ==
    \E this \in LiveIds, position \in Positions, fragment \in Fragments :
        /\ pc = "ready"
        /\ opCount < MaxOps
        /\ FindRoot(nodes, this) = Null
        /\ pc' = "hung"
        /\ prev' = nodes
        /\ lastOp' = [op |-> "insertAdjacentHTML", this |-> this, node |-> Null,
                      threw |-> FALSE, position |-> position, fragment |-> fragment]
        /\ opCount' = opCount + 1
        /\ kinds' = kinds \cup {"insertAdjacentHTML"}
        /\ UNCHANGED <<pieces, html, pos, currentNode, nodes, loop>>

Next ==
    \/ DoAppendChild
    \/ DoInsertBefore
    \/ DoInsertAfter
    \/ DoReplaceWith
    \/ DoRemove
    \/ DoInsertAdjacentHTML
    \/ DoInsertAdjacentHTMLHangs

Spec == InitTree /\ [][Next]_vars

-----------------------------------------------------------------------------
(* A for...of loop over a parsed tree, whose body may remove the node it has *)

\* for (const node of this): the iterator is made
IterStart ==
    \E this \in NodeIds :
        /\ pc = "ready"
        /\ pc' = "iterating"
        /\ iter' = NewIterator(nodes, this)
        /\ UNCHANGED <<pieces, html, pos, currentNode, nodes, history, yielded, removed, skipped>>

\* the loop calls next()
IterNext ==
    LET r == IteratorNext(nodes, iter)
    IN  /\ pc = "iterating"
        /\ iter' = r.it
        /\ yielded' = IF r.done \/ r.threw THEN yielded ELSE Append(yielded, r.value)
        /\ pc' = IF r.done \/ r.threw THEN "finished" ELSE "iterating"
        /\ UNCHANGED <<pieces, html, pos, currentNode, nodes, history, removed, skipped>>

\* the body calls node.remove() on the node it was handed: the wrapper the
\* iterator installed notes the removal of currentNode, then removes
IterRemove ==
    /\ pc = "iterating"
    /\ yielded # <<>>
    /\ (IF removed = <<>> THEN TRUE ELSE removed[Len(removed)].at # Len(yielded))
    /\ LET node == yielded[Len(yielded)]
       IN  /\ iter' = IF iter.patched /\ node = iter.currentNode
                      THEN [iter EXCEPT !.wasRemoved = TRUE] ELSE iter
           /\ nodes' = Remove(nodes, node)
           /\ removed' = Append(removed, [node |-> node, at |-> Len(yielded)])
    /\ UNCHANGED <<pieces, html, pos, currentNode, pc, history, yielded, skipped>>

\* the body calls node.skipChildren() on the node it was handed: the closure
\* the iterator attached to the node sets its flag
IterSkip ==
    /\ pc = "iterating"
    /\ yielded # <<>>
    /\ (IF skipped = <<>> THEN TRUE ELSE Last(skipped) # Len(yielded))
    /\ iter' = [iter EXCEPT !.skipChildrenForCurrentNode = TRUE]
    /\ skipped' = Append(skipped, Len(yielded))
    /\ UNCHANGED <<pieces, html, pos, currentNode, pc, nodes, history, yielded, removed>>

\* the body leaves the loop early (break, return or an exception): the
\* iterator object has no return() method, so nothing is called
IterBreak ==
    /\ pc = "iterating"
    /\ yielded # <<>>
    /\ pc' = "left"
    /\ UNCHANGED <<pieces, html, pos, currentNode, nodes, history, loop>>

\* node.remove() called after the loop: Node.prototype.remove is the wrapper
\* as long as it was not restored, and the wrapper writes the closure variable
\* wasRemoved of its iterator
RemoveAfterLoop ==
    \E node \in NodeIds :
        /\ pc \in {"finished", "left"}
        /\ pc' = "after"
        /\ iter' = IF iter.patched /\ node = iter.currentNode
                   THEN [iter EXCEPT !.wasRemoved = TRUE] ELSE iter
        /\ nodes' = Remove(nodes, node)
        /\ prev' = nodes
        /\ lastOp' = [op |-> "remove", this |-> node, node |-> Null, threw |-> FALSE]
        /\ opCount' = 1
        /\ kinds' = {"remove"}
        /\ UNCHANGED <<pieces, html, pos, currentNode, yielded, removed, skipped>>

NextIter ==
    \/ IterStart
    \/ IterNext
    \/ IterRemove
    \/ IterSkip
    \/ IterBreak
    \/ RemoveAfterLoop

SpecIter == InitTree /\ [][NextIter]_vars

-----------------------------------------------------------------------------
(* A query on a parsed tree *)

\* the documents the queries are made on:
\* <a><b></b></a><b k></b>, <b><a><b></b></a></b>, <a><b><c>x</c></b></a>
QueryInputs == {
    <<"oa", "ob", "cb", "ca", "obk", "cb">>,
    <<"ob", "oa", "ob", "cb", "ca", "cb">>,
    <<"oa", "ob", "oc", "x", "cc", "cb", "ca">>}

\* the main selectors: none, a, b
MainSelectors == {<<>>, <<"a">>, <<"b">>}

\* the selectors inside :not(): a, b, 'a b', [k], each with the tag name, the
\* attribute and the tag name of the enclosing element it asks for
InnerSelectors == {
    [text |-> <<"a">>, tag |-> <<"a">>, attr |-> <<>>, under |-> <<>>],
    [text |-> <<"b">>, tag |-> <<"b">>, attr |-> <<>>, under |-> <<>>],
    [text |-> <<"a", " ", "b">>, tag |-> <<"b">>, attr |-> <<>>, under |-> <<"a">>],
    [text |-> <<"[", "k", "]">>, tag |-> <<>>, attr |-> <<"k">>, under |-> <<>>]}

\* main:not(inner)
NotSelectorText(main, inner) == main \o NOT_OPEN \o inner.text \o <<")">>

InitQuery ==
    /\ pieces \in QueryInputs
    /\ html = Flatten(pieces)
    /\ pos = ParseFrom(html, ParseStart).pos
    /\ currentNode = ParseFrom(html, ParseStart).currentNode
    /\ nodes = Parse(html)
    /\ pc = "ready"
    /\ NoHistory
    /\ NoLoop

\* result = this.querySelectorAll('main:not(inner)')
DoQuerySelectorAll ==
    \E this \in NodeIds, main \in MainSelectors, inner \in InnerSelectors :
        /\ pc = "ready"
        /\ opCount = 0
        /\ lastOp' = [op |-> "querySelectorAll", this |-> this, node |-> Null,
                      threw |-> FALSE, main |-> main, inner |-> inner,
                      result |-> QuerySelectorAll(nodes, this, NotSelectorText(main, inner))]
        /\ prev' = nodes
        /\ opCount' = 1
        /\ kinds' = {"querySelectorAll"}
        /\ UNCHANGED <<pieces, html, pos, currentNode, pc, nodes, loop>>

NextQuery == DoQuerySelectorAll

SpecQuery == InitQuery /\ [][NextQuery]_vars

-----------------------------------------------------------------------------
(* Calls of updateAttribute on the nodes of a parsed tree *)

\* the documents: <a>, <a k="v">, <a k="x y">
AttributeInputs == {<<"oa">>, <<"oaq">>, <<"oaxy">>}

\* the arguments of updateAttribute
AttributeNamesGiven == {<<"k">>}
ValuesGiven == {<<>>, <<"x">>, <<"y">>, <<"x", " ", "y">>}
SeparatorsGiven == {<<" ">>, <<",">>, <<>>}

InitAttribute ==
    /\ pieces \in AttributeInputs
    /\ html = Flatten(pieces)
    /\ pos = ParseFrom(html, ParseStart).pos
    /\ currentNode = ParseFrom(html, ParseStart).currentNode
    /\ nodes = Parse(html)
    /\ pc = "ready"
    /\ NoHistory
    /\ NoLoop

\* this.updateAttribute(name, value, separator); again says that the call
\* before it was the same call
DoUpdateAttribute ==
    \E this \in NodeIds, name \in AttributeNamesGiven, value \in ValuesGiven,
       separator \in SeparatorsGiven :
        /\ pc = "ready"
        /\ opCount < MaxOps
        /\ nodes' = UpdateAttribute(nodes, this, name, value, separator)
        /\ prev' = nodes
        /\ lastOp' = [op |-> "updateAttribute", this |-> this, node |-> Null,
                      threw |-> FALSE, name |-> name, value |-> value,
                      separator |-> separator,
                      again |-> /\ lastOp.op = "updateAttribute"
                                /\ lastOp.this = this
                                /\ lastOp.name = name
                                /\ lastOp.value = value
                                /\ lastOp.separator = separator]
        /\ opCount' = opCount + 1
        /\ kinds' = {"updateAttribute"}
        /\ UNCHANGED <<pieces, html, pos, currentNode, pc, loop>>

NextAttribute == DoUpdateAttribute

SpecAttribute == InitAttribute /\ [][NextAttribute]_vars

-----------------------------------------------------------------------------
(* CSSParser.parse: one pass of the top-level loop per step.  html holds    *)
(* the style sheet, currentNode the css-root.                               *)

InitCss ==
    /\ pieces \in SeqsUpTo(CssPieces, MaxPieces)
    /\ html = Flatten(pieces)
    /\ pos = 0
    /\ nodes = <<NewNode("css-root", <<>>, <<>>, Null)>>
    /\ currentNode = 1
    /\ pc = "parse"
    /\ NoHistory
    /\ NoLoop

\* the pass of the loop of parse that begins here, after #skipWhitespace
CssPassResult ==
    TopItem(html, [t |-> nodes, pos |-> SkipWhitespace(html, pos), hung |-> FALSE],
            currentNode)

\* the break after #skipWhitespace reached the end
CssTrailingSpace ==
    /\ pc = "parse"
    /\ pos < Len(html)
    /\ SkipWhitespace(html, pos) >= Len(html)
    /\ pos' = SkipWhitespace(html, pos)
    /\ UNCHANGED <<pieces, html, currentNode, pc, nodes, history, loop>>

\* a pass that parses a comment, an at-rule or a rule, or that moves over
\* what is no rule
CssPass ==
    /\ pc = "parse"
    /\ SkipWhitespace(html, pos) < Len(html)
    /\ ~CssPassResult.hung
    /\ CssPassResult.pos # pos
    /\ nodes' = CssPassResult.t
    /\ pos' = CssPassResult.pos
    /\ UNCHANGED <<pieces, html, currentNode, pc, history, loop>>

\* a pass that never ends, inside #parseBlock, or that ends where it began
\* and is repeated for ever
CssPassHangs ==
    /\ pc = "parse"
    /\ SkipWhitespace(html, pos) < Len(html)
    /\ CssPassResult.hung \/ CssPassResult.pos = pos
    /\ nodes' = CssPassResult.t
    /\ pc' = "hung"
    /\ UNCHANGED <<pieces, html, pos, currentNode, history, loop>>

\* return root
CssReturn ==
    /\ pc = "parse"
    /\ pos >= Len(html)
    /\ pc' = "ready"
    /\ UNCHANGED <<pieces, html, pos, currentNode, nodes, history, loop>>

NextCss ==
    \/ CssTrailingSpace
    \/ CssPass
    \/ CssPassHangs
    \/ CssReturn

SpecCss == InitCss /\ [][NextCss]_vars

\* the stepwise parser and the operator CssParse agree
CssAgrees ==
    /\ pc = "ready" => /\ ~CssParse(html, <<>>).hung
                       /\ nodes = CssParse(html, <<>>).t
    /\ pc = "hung" => CssParse(html, <<>>).hung

-----------------------------------------------------------------------------
(* C1 *)

RECURSIVE Balanced(_, _)
\* every piece is a tag, a text or a comment and the tags are paired
Balanced(ps, stack) ==
    IF ps = <<>> THEN stack = <<>>
    ELSE LET p == Piece[Head(ps)]
         IN  CASE p.kind = "open" -> Balanced(Tail(ps), <<p.name>> \o stack)
               [] p.kind = "close" ->
                     /\ stack # <<>>
                     /\ Head(stack) = p.name
                     /\ Balanced(Tail(ps), Tail(stack))
               [] p.kind \in {"void", "text", "comment"} -> Balanced(Tail(ps), stack)
               [] OTHER -> FALSE

WellFormed(ps) == Balanced(ps, <<>>)

\* every opening tag is written the way toHtml writes it
Canonical(ps) == \A i \in 1..Len(ps) : Piece[ps[i]].canon

-----------------------------------------------------------------------------
(* Notions the claims about the tree are stated in *)

RECURSIVE CountIn(_, _)
\* how often x occurs in the sequence s
CountIn(s, x) ==
    IF s = <<>> THEN 0 ELSE (IF Head(s) = x THEN 1 ELSE 0) + CountIn(Tail(s), x)

RECURSIVE OccurrencesUpTo(_, _, _)
OccurrencesUpTo(t, n, k) ==
    IF k = 0 THEN 0 ELSE CountIn(t[k].children, n) + OccurrencesUpTo(t, n, k - 1)

\* how often n occurs among the children of all nodes
Occurrences(t, n) == OccurrencesUpTo(t, n, Len(t))

RECURSIVE PreOrder(_, _)
\* the nodes below the sequence cs of siblings, in depth-first pre-order
PreOrder(t, cs) ==
    IF cs = <<>> THEN <<>>
    ELSE <<Head(cs)>> \o PreOrder(t, t[Head(cs)].children) \o PreOrder(t, Tail(cs))

\* the nodes a traversal from this is to visit: from the root its descendants,
\* from another node the node and its descendants
Reachable(t, this) ==
    IF t[this].type = "root" /\ Len(t[this].children) > 0
    THEN PreOrder(t, t[this].children)
    ELSE <<this>> \o PreOrder(t, t[this].children)

\* the nodes of the tree under the root
InTree(t) == ReachFrom(t, {Root})

\* every child has the node that holds it as its parent, and is held once
Consistent(t) ==
    \A n \in 1..Len(t) :
        /\ \A i \in 1..Len(t[n].children) : t[t[n].children[i]].parent = n
        /\ \A i, j \in 1..Len(t[n].children) :
               i # j => t[n].children[i] # t[n].children[j]

RECURSIVE Without(_, _, _)
\* the sequence cs without its places I, counted from k on
Without(cs, I, k) ==
    IF cs = <<>> THEN <<>>
    ELSE (IF k \in I THEN <<>> ELSE <<Head(cs)>>) \o Without(Tail(cs), I, k + 1)

-----------------------------------------------------------------------------
(* C2, C3: the iterator *)

\* C2 as stated: a loop over a node that ran to completion, with no removal
\* and no skipChildren, received each node reachable from it exactly once, in
\* depth-first pre-order
C2_VisitsEachOnceInPreOrder ==
    (pc = "finished" /\ removed = <<>> /\ skipped = <<>>)
        => yielded = Reachable(nodes, iter.this)

\* C3 as stated: after the body removed the node it was handed, that node is
\* not yielded again and no node is yielded twice among the later yields
C3_RemovedNotYieldedAgain ==
    \A i \in 1..Len(removed) :
        /\ \A k \in (removed[i].at + 1)..Len(yielded) : yielded[k] # removed[i].node
        /\ \A k, l \in (removed[i].at + 1)..Len(yielded) :
               k # l => yielded[k] # yielded[l]

-----------------------------------------------------------------------------
(* C4, C5, C6: appendChild of a node that has a parent *)

\* C4 as stated: after appendChild of a node that had a parent, the node
\* occurs exactly once, as the last child of the new parent
C4_AppendChildMoves ==
    (lastOp.op = "appendChild" /\ Consistent(prev) /\ prev[lastOp.node].parent # Null)
        => /\ Occurrences(nodes, lastOp.node) = 1
           /\ Last(nodes[lastOp.this].children) = lastOp.node
           /\ (prev[lastOp.node].parent # lastOp.this
                   => lastOp.node \notin ChildSet(nodes, prev[lastOp.node].parent))

\* C5 as stated: after appendChild of a parented tag-open that had its
\* tag-close after it, the tag-close follows it in the new parent
C5_AppendChildCarriesClose ==
    (/\ lastOp.op = "appendChild"
     /\ Consistent(prev)
     /\ FindClosingTag(prev, lastOp.node) # Null)
        => /\ FindClosingTag(nodes, lastOp.node) = FindClosingTag(prev, lastOp.node)
           /\ nodes[FindClosingTag(prev, lastOp.node)].parent = lastOp.this
           /\ Last(nodes[lastOp.this].children) = FindClosingTag(prev, lastOp.node)

\* C6 as stated: node.parent.appendChild(node) of a last child leaves the
\* serialization as it was, and a traversal from the root meets node once
C6_AppendLastChildIsNoOp ==
    (/\ lastOp.op = "appendChild"
     /\ Consistent(prev)
     /\ lastOp.this \in InTree(prev)
     /\ prev[lastOp.node].parent = lastOp.this
     /\ Last(prev[lastOp.this].children) = lastOp.node)
        => /\ ToHtml(nodes, Root, TRUE) = ToHtml(prev, Root, TRUE)
           /\ CountIn(Traversal(nodes, Root), lastOp.node) = 1

-----------------------------------------------------------------------------
(* C7: the pairing of tags *)

\* the tag-close the parser paired the tag-open o with: parse puts it right
\* after o
Mate(o) == FindClosingTag(Parse(html), o)

\* c comes after o among the children cs, with no tag-open of o's name between
ClosesForward(t, cs, o, c) ==
    \E i, j \in 1..Len(cs) :
        /\ i < j
        /\ cs[i] = o
        /\ cs[j] = c
        /\ \A k \in (i + 1)..(j - 1) :
               ~(t[cs[k]].type = "tag-open" /\ t[cs[k]].name = t[o].name)

\* C7 as stated: after parse and any operations, every non-void tag-open of
\* the tree whose tag-close is in the tree has it further on among its
\* siblings, with no tag-open of the same name between
C7_PairingKept ==
    pc = "ready" =>
        \A o \in InTree(nodes) :
            (/\ nodes[o].type = "tag-open"
             /\ nodes[o].name \notin VOID_ELEMS
             /\ Mate(o) # Null
             /\ Mate(o) \in InTree(nodes))
                => \E p \in InTree(nodes) : ClosesForward(nodes, nodes[p].children, o, Mate(o))

-----------------------------------------------------------------------------
(* C8, C9: remove *)

\* the parent remove() took the node from
RemovedFrom == prev[lastOp.this].parent

\* remove() acted: the node had a parent that held it
RemoveActed ==
    /\ lastOp.op = "remove"
    /\ RemovedFrom # Null
    /\ lastOp.this \in ChildSet(prev, RemovedFrom)

\* the 1-based place of the node among its siblings before remove()
RemovedPlace == IndexOfNode(prev[RemovedFrom].children, lastOp.this) + 1

\* the node was a tag-open with its tag-close next
PairAfter ==
    /\ prev[lastOp.this].type = "tag-open"
    /\ RemovedPlace < Len(prev[RemovedFrom].children)
    /\ prev[prev[RemovedFrom].children[RemovedPlace + 1]].type = "tag-close"
    /\ prev[prev[RemovedFrom].children[RemovedPlace + 1]].name = prev[lastOp.this].name

\* the node was a tag-close with its tag-open before
PairBefore ==
    /\ prev[lastOp.this].type = "tag-close"
    /\ RemovedPlace > 1
    /\ prev[prev[RemovedFrom].children[RemovedPlace - 1]].type = "tag-open"
    /\ prev[prev[RemovedFrom].children[RemovedPlace - 1]].name = prev[lastOp.this].name

\* C8 as stated: every node remove() took from the children has parent null
C8_RemoveClearsEveryParent ==
    RemoveActed =>
        \A n \in ChildSet(prev, RemovedFrom) \ ChildSet(nodes, RemovedFrom) :
            nodes[n].parent = Null

\* C9: remove() takes the node and an adjacent paired tag from the children,
\* else the node alone; the other siblings stay, in their order, and no other
\* node's children change
C9_RemoveTakesPairOrOne ==
    RemoveActed =>
        /\ nodes[RemovedFrom].children =
               Without(prev[RemovedFrom].children,
                       IF PairAfter THEN {RemovedPlace, RemovedPlace + 1}
                       ELSE IF PairBefore THEN {RemovedPlace - 1, RemovedPlace}
                       ELSE {RemovedPlace},
                       1)
        /\ \A m \in 1..Len(nodes) :
               m # RemovedFrom => nodes[m].children = prev[m].children

\* remove() of a tag-open with its tag-close next, between other siblings
C9_WitnessPair ==
    /\ RemoveActed
    /\ PairAfter
    /\ Len(nodes[RemovedFrom].children) >= 1
    /\ Len(prev[RemovedFrom].children) = Len(nodes[RemovedFrom].children) + 2

-----------------------------------------------------------------------------
(* C10: replaceWith by a descendant *)

\* replaceWith was called on a tag-open of the tree, in which every child is
\* held once, by its parent, with one of its descendants
ReplacedByDescendant ==
    /\ lastOp.op = "replaceWith"
    /\ Consistent(prev)
    /\ lastOp.this \in InTree(prev)
    /\ prev[lastOp.this].type = "tag-open"
    /\ lastOp.node \in ReachFrom(prev, ChildSet(prev, lastOp.this))

\* the whitespace-only text node right before the replacement, or null
SpaceBefore ==
    WhitespaceBefore(prev, prev[prev[lastOp.node].parent].children,
                     IndexOfNode(prev[prev[lastOp.node].parent].children, lastOp.node))

\* what takes the place of the replaced element: the replacement, its
\* tag-close, and before them the whitespace when it counts
Carried(withSpace) ==
    (IF withSpace /\ SpaceBefore # Null THEN <<SpaceBefore>> ELSE <<>>)
    \o <<lastOp.node>>
    \o (IF FindClosingTag(prev, lastOp.node) # Null
        THEN <<FindClosingTag(prev, lastOp.node)>> ELSE <<>>)

\* the nodes that stay: the carried ones and all below them
Kept(withSpace) ==
    ReachFrom(prev, {Carried(withSpace)[i] : i \in 1..Len(Carried(withSpace))})

\* the nodes that go: the replaced element, its tag-close and all below it
Replaced ==
    ReachFrom(prev, {lastOp.this})
    \cup (IF FindClosingTag(prev, lastOp.this) # Null
          THEN {FindClosingTag(prev, lastOp.this)} ELSE {})

\* the tree before, with the carried nodes put in the place of the replaced
\* element and its tag-close
Substituted(withSpace) ==
    [prev EXCEPT ![prev[lastOp.this].parent].children =
        SubSeq(@, 1, IndexOfNode(@, lastOp.this))
        \o Carried(withSpace)
        \o SubSeq(@, IndexOfNode(@, lastOp.this) + 1
                     + (IF FindClosingTag(prev, lastOp.this) # Null THEN 2 ELSE 1),
                  Len(@))]

\* the places of the tree that hold n
PlacesOf(t, n) ==
    {<<m, i>> \in InTree(t) \X (1..Len(t)) : i <= Len(t[m].children) /\ t[m].children[i] = n}

\* the serialization is that of the replacement put in place, none of the
\* other replaced nodes is in the tree, and the replacement is there once
OnlyReplacementLeft(withSpace) ==
    /\ ToHtml(nodes, Root, TRUE) = ToHtml(Substituted(withSpace), Root, TRUE)
    /\ InTree(nodes) \cap (Replaced \ Kept(withSpace)) = {}
    /\ Cardinality(PlacesOf(nodes, lastOp.node)) = 1

\* C10 as stated: after replaceWith on a tag-open by one of its descendants
\* the serialization holds the replacement's subtree only, once, and no other
\* node of the replaced element
C10_ReplacementSubtreeOnly == ReplacedByDescendant => OnlyReplacementLeft(FALSE)

\* C10 amended: the same, but the whitespace-only text node right before the
\* replacement comes along and precedes it in the result
C10_ReplacementAndItsWhitespace == ReplacedByDescendant => OnlyReplacementLeft(TRUE)

\* an element was replaced by a descendant that has a tag-close and whitespace
\* before it
C10_Witness ==
    /\ ReplacedByDescendant
    /\ SpaceBefore # Null
    /\ FindClosingTag(prev, lastOp.node) # Null
    /\ lastOp.node \in InTree(nodes)

-----------------------------------------------------------------------------
(* C11, C12: where insertBefore and insertAfter put a node *)

\* insertBefore or insertAfter was called on a node that has a parent, in a
\* tree where every child is held once, by its parent
InsertCalled ==
    /\ lastOp.op \in {"insertBefore", "insertAfter"}
    /\ Consistent(prev)
    /\ prev[lastOp.this].parent # Null

\* the anchor: the node the insertion point is counted from
Anchor ==
    IF lastOp.op = "insertAfter" THEN AfterTarget(prev, lastOp.this)
    ELSE BeforeTarget(prev, lastOp.this,
                      ElemAt(prev[prev[lastOp.this].parent].children,
                             IndexOfNode(prev[prev[lastOp.this].parent].children,
                                         lastOp.this) - 1))

\* the 0-based insertion point among the children of the anchor's parent
InsertionPoint ==
    IndexOfNode(prev[prev[Anchor].parent].children, Anchor)
    + (IF lastOp.op = "insertAfter" THEN 1 ELSE 0)

\* the anchor and the moved node are children of the anchor's parent, the
\* moved node at a place before the insertion point, and the moved node is
\* neither the anchor nor the tag-open the anchor closes
MovedFromBefore ==
    /\ InsertCalled
    /\ prev[lastOp.node].parent = prev[Anchor].parent
    /\ IndexOfNode(prev[prev[Anchor].parent].children, Anchor) # -1
    /\ IndexOfNode(prev[prev[Anchor].parent].children, lastOp.node) # -1
    /\ IndexOfNode(prev[prev[Anchor].parent].children, lastOp.node) < InsertionPoint
    /\ lastOp.node # Anchor
    /\ FindClosingTag(prev, lastOp.node) # Anchor

\* the whitespace-only text node right before the moved node, or null
LeadingSpace ==
    IF prev[lastOp.node].parent = Null THEN Null
    ELSE WhitespaceBefore(prev, prev[prev[lastOp.node].parent].children,
                          IndexOfNode(prev[prev[lastOp.node].parent].children, lastOp.node))

\* what moves: the node with its tag-close, and before them the whitespace
\* when it counts
Moved(withSpace) ==
    (IF withSpace /\ LeadingSpace # Null THEN <<LeadingSpace>> ELSE <<>>)
    \o <<lastOp.node>>
    \o (IF FindClosingTag(prev, lastOp.node) # Null
        THEN <<FindClosingTag(prev, lastOp.node)>> ELSE <<>>)

\* the sequence m stands among cs right before the node a
RightBefore(cs, m, a) ==
    /\ IndexOfNode(cs, a) >= Len(m)
    /\ SubSeq(cs, IndexOfNode(cs, a) - Len(m) + 1, IndexOfNode(cs, a)) = m

\* the sequence m stands among cs right after the node a
RightAfter(cs, m, a) ==
    /\ IndexOfNode(cs, a) # -1
    /\ IndexOfNode(cs, a) + 1 + Len(m) <= Len(cs)
    /\ SubSeq(cs, IndexOfNode(cs, a) + 2, IndexOfNode(cs, a) + 1 + Len(m)) = m

\* the call returned, the moved node is held once, and what moved stands
\* next to the anchor on the side of the operation
MovedNextToAnchor(withSpace) ==
    /\ ~lastOp.threw
    /\ Occurrences(nodes, lastOp.node) = 1
    /\ nodes[lastOp.node].parent = prev[Anchor].parent
    /\ IF lastOp.op = "insertBefore"
       THEN RightBefore(nodes[prev[Anchor].parent].children, Moved(withSpace), Anchor)
       ELSE RightAfter(nodes[prev[Anchor].parent].children, Moved(withSpace), Anchor)

\* C11 as stated: a node moved from a place before the insertion point in the
\* same parent ends up once in the parent, right before the anchor for
\* insertBefore, right after the anchor (or its tag-close) for insertAfter
C11_MovedNodeNextToAnchor == MovedFromBefore => MovedNextToAnchor(FALSE)

\* C11 amended: the same holds of the group that moves, which is the node,
\* its tag-close, and the whitespace-only text node that stood right before it
C11_MovedGroupNextToAnchor == MovedFromBefore => MovedNextToAnchor(TRUE)

\* insertAfter moved a node with whitespace before it from before the anchor
C11_Witness ==
    /\ MovedFromBefore
    /\ lastOp.op = "insertAfter"
    /\ LeadingSpace # Null
    /\ LeadingSpace # Anchor
    /\ ~lastOp.threw

\* insertAfter was called on a non-void tag-open of the tree that has its
\* tag-close, with a node that is neither of the two
InsertedAfterElement ==
    /\ InsertCalled
    /\ lastOp.this \in InTree(prev)
    /\ lastOp.op = "insertAfter"
    /\ prev[lastOp.this].type = "tag-open"
    /\ ~IsVoidElement(prev, lastOp.this)
    /\ FindClosingTag(prev, lastOp.this) # Null
    /\ lastOp.node \notin {lastOp.this, FindClosingTag(prev, lastOp.this)}

\* C12: after insertAfter on a non-void tag-open, what was inserted stands
\* after the element's tag-close among the siblings of the element: it is no
\* child of the element and nothing stands between the tag-open and its
\* tag-close
C12_InsertAfterLandsOutside ==
    InsertedAfterElement =>
        /\ ~lastOp.threw
        /\ \A i \in 1..Len(Moved(TRUE)) : Moved(TRUE)[i] \notin ChildSet(nodes, lastOp.this)
        /\ FindClosingTag(nodes, lastOp.this) = FindClosingTag(prev, lastOp.this)
        /\ RightAfter(nodes[prev[lastOp.this].parent].children, Moved(TRUE),
                      FindClosingTag(prev, lastOp.this))

\* insertAfter on an element that has children, of a node from another parent
C12_Witness ==
    /\ InsertedAfterElement
    /\ prev[lastOp.this].children # <<>>
    /\ prev[lastOp.node].parent # Null
    /\ prev[lastOp.node].parent # prev[lastOp.this].parent
    /\ ~lastOp.threw
    /\ lastOp.node \in InTree(nodes)

-----------------------------------------------------------------------------
(* C13: the whitespace around a node that is moved *)

\* the parent the moved node was extracted from
OldParent == prev[lastOp.node].parent

\* insertBefore, insertAfter or replaceWith was called on a node of the tree,
\* in which every child is held once, by its parent, with a node that is not
\* one of the two tags of the same element and has a parent holding it: the
\* operation extracts that node
ExtractedToMove ==
    /\ lastOp.op \in {"insertBefore", "insertAfter", "replaceWith"}
    /\ Consistent(prev)
    /\ lastOp.this \in InTree(prev)
    /\ lastOp.node # lastOp.this
    /\ lastOp.node # FindClosingTag(prev, lastOp.this)
    /\ lastOp.this # FindClosingTag(prev, lastOp.node)
    /\ OldParent # Null
    /\ lastOp.node \in ChildSet(prev, OldParent)

\* the node that followed the moved node, or its tag-close, in the old place
Follower ==
    ElemAt(prev[OldParent].children,
           IndexOfNode(prev[OldParent].children, lastOp.node)
           + (IF FindClosingTag(prev, lastOp.node) # Null THEN 2 ELSE 1))

\* a whitespace-only text node followed the moved node and is not the node
\* the operation was called on
TrailingSpace ==
    IF /\ Follower # Null
       /\ Follower # lastOp.this
       /\ prev[Follower].type = "text"
       /\ IsBlank(prev[Follower].content)
    THEN Follower ELSE Null

\* the places, children of some node, where the sequence m stands right
\* before the node a
HoldersOf(m, a) == {h \in 1..Len(nodes) : RightBefore(nodes[h].children, m, a)}

\* C13 as stated: the whitespace-only text node right before a node that is
\* extracted to be moved stands right before it afterwards, held once, and a
\* whitespace-only text node that followed it is still a child of the old
\* parent, held once
C13_WhitespaceFollowsTheMove ==
    ExtractedToMove =>
        /\ LeadingSpace # Null =>
               /\ HoldersOf(<<LeadingSpace>>, lastOp.node) # {}
               /\ Occurrences(nodes, LeadingSpace) = 1
        /\ TrailingSpace # Null =>
               /\ CountIn(nodes[OldParent].children, TrailingSpace) = 1
               /\ Occurrences(nodes, TrailingSpace) = 1

-----------------------------------------------------------------------------
(* C14: skipChildren *)

\* C14 as stated: once the body of a loop that removes nothing has called
\* skipChildren() on the node it was handed, no descendant of that node is
\* yielded afterwards
C14_SkipChildrenBypassesSubtree ==
    removed = <<>> =>
        \A i \in 1..Len(skipped) :
            \A k \in (skipped[i] + 1)..Len(yielded) :
                yielded[k] \notin ReachFrom(nodes, ChildSet(nodes, yielded[skipped[i]]))

-----------------------------------------------------------------------------
(* C15: the parse of any text returns a root *)

\* C15 as stated: whatever the input, the parse is under way or has returned
\* a node of type root; it never stops in a pass that does not end
C15_ParseAlwaysReturnsRoot ==
    \/ pc = "parse"
    \/ pc = "ready" /\ nodes[Root].type = "root"

-----------------------------------------------------------------------------
(* C16: a comment opener with no closer *)

RECURSIVE FirstCommentSkip(_, _)
\* the first position at which the loop meets '<!--' with no '-->' after it,
\* -1 when it meets none
FirstCommentSkip(h, st) ==
    IF st.pos >= Len(h) \/ Branch(h, st.pos) = "styleHang" THEN -1
    ELSE IF Branch(h, st.pos) = "commentSkip" THEN st.pos
    ELSE FirstCommentSkip(h, LoopBody(h, st))

\* C16 as stated: when the parser meets '<!--' with no later '-->', the tree
\* it returns holds a comment node whose content is the input from after
\* that opener to the end of the input
C16_UnterminatedCommentRunsToEnd ==
    (pc = "ready" /\ FirstCommentSkip(html, ParseStart) # -1) =>
        \E n \in InTree(nodes) :
            /\ nodes[n].type = "comment"
            /\ nodes[n].content = SubstringFrom(html, FirstCommentSkip(html, ParseStart) + 4)

-----------------------------------------------------------------------------
(* C17: a closing tag whose open tag is up the parent chain *)

RECURSIVE Ancestry(_, _)
\* n, its parent, the parent of that, and so on up to the root
Ancestry(t, n) == IF n = Null THEN <<>> ELSE <<n>> \o Ancestry(t, t[n].parent)

\* the loop is at a closing tag that has its '>'
AtClosingTag == pc = "parse" /\ pos < Len(html) /\ Branch(html, pos) = "close"

\* the name written in the closing tag at pos
ClosedName == Substring(html, pos + 2, IndexOf(html, Str(">"), pos))

\* the places in the parent chain of the insertion point of open tags with
\* the name of the closing tag
OpenUpChain ==
    {i \in 1..Len(Ancestry(nodes, currentNode)) :
        /\ nodes[Ancestry(nodes, currentNode)[i]].type = "tag-open"
        /\ nodes[Ancestry(nodes, currentNode)[i]].name = ClosedName}

\* the nearest of them
NearestOpen ==
    Ancestry(nodes, currentNode)[CHOOSE i \in OpenUpChain : \A j \in OpenUpChain : i <= j]

\* the pass made one tag-close node, the last child of parent, after open
ClosedBeside(open, parent) ==
    /\ Len(nodes') = Len(nodes) + 1
    /\ nodes'[Len(nodes')].type = "tag-close"
    /\ nodes'[Len(nodes')].name = ClosedName
    /\ nodes'[Len(nodes')].parent = parent
    /\ nodes'[parent].children = Append(nodes[parent].children, Len(nodes'))
    /\ CountIn(nodes'[parent].children, open) = 1
    /\ currentNode' = parent

\* C17: when the parser reads a closing tag and an open tag of that name is
\* up the parent chain of the insertion point, the tag-close node becomes the
\* last child of the parent of the nearest such open tag, a sibling of it,
\* and that parent becomes the insertion point
C17_CloseBesideNearestOpen ==
    [][(AtClosingTag /\ OpenUpChain # {}) =>
           ClosedBeside(NearestOpen, nodes[NearestOpen].parent)]_vars

\* a closing tag was placed beside an open tag that was not the insertion
\* point: an open tag inside it is still without its closing tag
C17_Witness ==
    /\ Len(nodes) > 1
    /\ nodes[Len(nodes)].type = "tag-close"
    /\ nodes[Len(nodes)].parent = currentNode
    /\ \E m \in ChildSet(nodes, currentNode) :
           /\ nodes[m].type = "tag-open"
           /\ nodes[m].name = nodes[Len(nodes)].name
           /\ nodes[m].children # <<>>
           /\ nodes[Last(nodes[m].children)].type = "tag-open"
           /\ nodes[Last(nodes[m].children)].name # nodes[m].name

-----------------------------------------------------------------------------
(* C18: void tags *)

\* the tag-close nodes of the name v
ClosersNamed(t, v) == {n \in 1..Len(t) : t[n].type = "tag-close" /\ t[n].name = v}

\* the places before the position upTo where the text s is written in h
WrittenAt(h, s, upTo) == {i \in 0..(upTo - Len(s)) : Substring(h, i, i + Len(s)) = s}

\* a void tag-open is never the insertion point and has no children, and
\* there are no more tag-close nodes of a void name than closing tags of
\* that name written in the text read so far
VoidTagsStayEmpty ==
    /\ ~(nodes[currentNode].type = "tag-open" /\ nodes[currentNode].name \in VOID_ELEMS)
    /\ \A n \in 1..Len(nodes) :
           (nodes[n].type = "tag-open" /\ nodes[n].name \in VOID_ELEMS)
               => nodes[n].children = <<>>
    /\ \A v \in VOID_ELEMS :
           Cardinality(ClosersNamed(nodes, v))
               <= Cardinality(WrittenAt(html, <<"<", "/">> \o v \o <<">">>, pos))

\* a closing tag of a void name that is read is put at the insertion point,
\* which stays where it is
VoidCloserStandsFree ==
    (AtClosingTag /\ ClosedName \in VOID_ELEMS) =>
        /\ Len(nodes') = Len(nodes) + 1
        /\ nodes'[Len(nodes')].type = "tag-close"
        /\ nodes'[Len(nodes')].name = ClosedName
        /\ nodes'[currentNode].children = Append(nodes[currentNode].children, Len(nodes'))
        /\ currentNode' = currentNode

\* C18: for every void tag name, the parser makes no tag-close node of that
\* name but for a closing tag written in the input, never makes a void
\* tag-open the insertion point, and a closing tag of a void name that is in
\* the input is paired with no open tag: it goes to the insertion point
C18_VoidTagsNeverPaired == [](VoidTagsStayEmpty) /\ [][VoidCloserStandsFree]_vars

\* inside an element, a closing tag of a void name was read right after the
\* void tag of that name
C18_Witness ==
    \E n \in 1..Len(nodes) :
        /\ nodes[n].type = "tag-close"
        /\ nodes[n].name \in VOID_ELEMS
        /\ nodes[n].parent # Root
        /\ nodes[n].parent = currentNode
        /\ \E i \in 2..Len(nodes[currentNode].children) :
               /\ nodes[currentNode].children[i] = n
               /\ nodes[nodes[currentNode].children[i - 1]].type = "tag-open"
               /\ nodes[nodes[currentNode].children[i - 1]].name = nodes[n].name

-----------------------------------------------------------------------------
(* C19: the attribute without a value and the attribute with an empty value *)

\* how many of the pieces of the input are the piece p
PiecesOf(p) == Cardinality({i \in 1..Len(pieces) : pieces[i] = p})

\* the opening tags of the tree whose attribute k has the value v
TagsWithK(v) ==
    {n \in InTree(nodes) :
        /\ nodes[n].type = "tag-open"
        /\ \E i \in 1..Len(nodes[n].attributes) :
               nodes[n].attributes[i] = [name |-> Str("k"), value |-> v]}

\* how many times the text s is written in toHtml(true) of the tree
TimesEmitted(s) ==
    Cardinality(WrittenAt(ToHtml(nodes, Root, TRUE), s, Len(ToHtml(nodes, Root, TRUE))))

\* C19 as stated: in the tree of a text of tags, text and comments the tags
\* written <a k> are the tags whose k has the sentinel, the tags written
\* <a k=""> are the tags whose k has the empty string, and toHtml writes the
\* former bare and the latter with their empty value
C19_EmptyValueKeptDistinct ==
    (pc = "ready" /\ \A i \in 1..Len(pieces) : pieces[i] \in MarkupPieces) =>
        /\ Cardinality(TagsWithK(EMPVAL)) = PiecesOf("oak")
        /\ Cardinality(TagsWithK(<<>>)) = PiecesOf("oae")
        /\ TimesEmitted(Piece["oak"].chars) = PiecesOf("oak")
        /\ TimesEmitted(Piece["oae"].chars) = PiecesOf("oae")

-----------------------------------------------------------------------------
(* C20: insertBefore, insertAfter and replaceWith of a node without parent *)

\* the last operation was one of the three, called on a node whose parent
\* was null
CalledOnParentless ==
    /\ lastOp.op \in {"insertBefore", "insertAfter", "replaceWith"}
    /\ prev[lastOp.this].parent = Null

\* C20: insertBefore, insertAfter and replaceWith called on a node that has
\* no parent raise an error
C20_ParentlessRaises == CalledOnParentless => lastOp.threw

\* after a remove(), one of the three was called on a node other than the
\* root that had no parent, and raised
C20_Witness ==
    /\ CalledOnParentless
    /\ lastOp.this # Root
    /\ lastOp.threw
    /\ opCount = 2
    /\ "remove" \in kinds

-----------------------------------------------------------------------------
(* C21: insertAdjacentHTML inside a void element *)

\* insertAdjacentHTML was called with an inside position on a void element
\* and the call came to an end
InsideVoidCalled ==
    /\ pc = "ready"
    /\ lastOp.op = "insertAdjacentHTML"
    /\ lastOp.position \in {"afterbegin", "beforeend"}
    /\ IsVoidElement(prev, lastOp.this)

\* C21 as stated: insertAdjacentHTML with the position afterbegin or
\* beforeend on a void element raises an error, whatever the fragment is
C21_InsideVoidRaises == InsideVoidCalled => lastOp.threw

-----------------------------------------------------------------------------
(* C22: querySelectorAll with :not() *)

\* the tag-open nodes under the node m, the node included
TagsUnder(t, m) == {n \in ReachFrom(t, {m}) : t[n].type = "tag-open"}

\* the node n is what the selector with the tag name tag, the attribute attr
\* and the enclosing tag name under asks for, anywhere in the tree
Asked(t, n, tag, attr, under) ==
    /\ t[n].type = "tag-open"
    /\ (tag # <<>> => t[n].name = tag)
    /\ (attr # <<>> => \E i \in 1..Len(t[n].attributes) : t[n].attributes[i].name = attr)
    /\ (under # <<>> =>
            \E m \in TagsUnder(t, Root) : t[m].name = under /\ n \in TagsUnder(t, m))

\* C22: querySelectorAll('main:not(inner)') on a node gives, each once, the
\* tag-open nodes under that node that the main selector asks for, but for
\* every node that inner matches anywhere in the tree of the root
C22_NotSubtractsWholeTreeMatches ==
    lastOp.op = "querySelectorAll" =>
        /\ Members(lastOp.result) =
               {n \in TagsUnder(nodes, lastOp.this) :
                   /\ Asked(nodes, n, lastOp.main, <<>>, <<>>)
                   /\ ~Asked(nodes, n, lastOp.inner.tag, lastOp.inner.attr,
                             lastOp.inner.under)}
        /\ Cardinality(Members(lastOp.result)) = Len(lastOp.result)

\* a query on a node other than the root left out a node for an inner
\* selector whose enclosing element is above the node the query was made on
C22_Witness ==
    /\ lastOp.op = "querySelectorAll"
    /\ lastOp.this # Root
    /\ lastOp.inner.under # <<>>
    /\ \E n \in TagsUnder(nodes, lastOp.this) :
           /\ Asked(nodes, n, lastOp.main, <<>>, <<>>)
           /\ n \notin Members(lastOp.result)
           /\ \A m \in TagsUnder(nodes, lastOp.this) : nodes[m].name # lastOp.inner.under
    /\ lastOp.result # <<>>

-----------------------------------------------------------------------------
(* C23: updateAttribute *)


\* the places of the character c in s
CharPlaces(s, c) == {x \in 1..Len(s) : s[x] = c}

\* the tokens of s between the characters c: what stands from the start of s
\* or from behind a c up to the next c or to the end of s
TokensOf(s, c) ==
    {SubSeq(s, p[1], p[2] - 1) :
        p \in {q \in ({1} \cup {k + 1 : k \in CharPlaces(s, c)})
                     \X ({Len(s) + 1} \cup CharPlaces(s, c)) :
                  /\ q[1] <= q[2]
                  /\ \A x \in q[1]..(q[2] - 1) : s[x] # c}}

\* the attribute name of the node before and after the last call
ValueBefore == AttributeValue(prev[lastOp.this].attributes, lastOp.name)
ValueAfter == AttributeValue(nodes[lastOp.this].attributes, lastOp.name)

\* the call created the attribute, or appended the value when it was not a
\* token of it (for a separator of one character)
AppendsUnlessPresent ==
    /\ HasAttribute(nodes, lastOp.this, lastOp.name)
    /\ ~HasAttribute(prev, lastOp.this, lastOp.name) => ValueAfter = lastOp.value
    /\ (HasAttribute(prev, lastOp.this, lastOp.name) /\ Len(lastOp.separator) = 1) =>
           ValueAfter = IF lastOp.value \in TokensOf(ValueBefore, lastOp.separator[1])
                        THEN ValueBefore
                        ELSE ValueBefore \o lastOp.separator \o lastOp.value

\* the second of two calls with the same arguments changed nothing
SecondCallChangesNothing == lastOp.again => nodes = prev

\* C23 as stated: updateAttribute creates the attribute or appends the value
\* unless it is one of the tokens, and a second call with the same arguments
\* leaves the value of the first
C23_AppendsOnceAnyArguments ==
    lastOp.op = "updateAttribute" =>
        /\ AppendsUnlessPresent
        /\ SecondCallChangesNothing

\* the separator is one character and does not occur in the value
SeparatorApartFromValue ==
    /\ Len(lastOp.separator) = 1
    /\ \A i \in 1..Len(lastOp.value) : lastOp.value[i] # lastOp.separator[1]

\* C23 amended: the second call changes nothing when the separator is one
\* character that does not occur in the value
C23_AppendsOnceSeparatorApart ==
    lastOp.op = "updateAttribute" =>
        /\ AppendsUnlessPresent
        /\ SeparatorApartFromValue => SecondCallChangesNothing

\* a value was appended to an attribute by the first call and the same call
\* was made again
C23_Witness ==
    /\ lastOp.op = "updateAttribute"
    /\ lastOp.again
    /\ SeparatorApartFromValue
    /\ HasAttribute(Parse(html), lastOp.this, lastOp.name)
    /\ AttributeValue(Parse(html)[lastOp.this].attributes, lastOp.name) # ValueAfter

-----------------------------------------------------------------------------
(* C24: declarations without a colon *)

\* the style sheet is one rule a{ } with nothing but declarations in it,
\* some without a colon (b;) and some well-formed (c:d;)
DeclarationsOnly ==
    /\ Len(pieces) >= 2
    /\ pieces[1] = "ra"
    /\ pieces[Len(pieces)] = "rb"
    /\ \A i \in 2..(Len(pieces) - 1) : pieces[i] \in {"bad", "good"}

\* the entries the well-formed declarations of the style sheet make
DeclarationsWritten ==
    IF \E i \in 1..Len(pieces) : pieces[i] = "good"
    THEN <<[name |-> <<"c">>, value |-> <<"d">>]>>
    ELSE <<>>

\* C24: a declaration with no ':' is skipped up to the next ';' or '}' and
\* adds no entry, the declarations after it are parsed as usual, and the
\* parse returns
C24_MalformedDeclarationSkipped ==
    DeclarationsOnly =>
        /\ pc # "hung"
        /\ pc = "ready" =>
               /\ Len(nodes) = 2
               /\ nodes[2].type = "css-rule"
               /\ nodes[2].cssDeclarations = DeclarationsWritten

-----------------------------------------------------------------------------
(* C26: the CSS parser terminates *)

\* C26: every pass of the top-level loop and of the loop of a block moves the
\* scan position on, so no call of the CSS parser is caught in a pass that
\* is repeated for ever
C26_CssParserTerminates == pc # "hung"

-----------------------------------------------------------------------------
(* C27: the HTML parser terminates *)

\* a step of the scan loop leaves the position cursor further on
CursorAdvances == pos' > pos

\* C27: every pass of the main scan loop strictly increases the position
\* cursor: each step taken inside the loop is a pass that moves the cursor
\* on, or the return after the cursor has reached the end of the text
C27_EveryPassAdvances ==
    [][pc = "parse" => \/ CursorAdvances
                       \/ pc' = "ready" /\ pos >= Len(html)]_vars

\* the same for the passes other than the one caught in the CSS parser
PassesOutsideCssAdvance ==
    [][(pc = "parse" /\ pc' # "hung") => \/ CursorAdvances
                                         \/ pc' = "ready" /\ pos >= Len(html)]_vars

-----------------------------------------------------------------------------
(* C25: parent and children agree *)

\* the nodes of the tree and the nodes that name one of them as their parent
\* (fragment roots and css-roots left on the heap are no part of the tree)
TreeAndPointing(t) ==
    InTree(t) \cup {n \in 1..Len(t) : t[n].type \notin {"root", "css-root"}
                                       /\ t[n].parent \in InTree(t)}

\* every child of n names n as its parent and stands once among the children
ChildrenPointBack(t, n) ==
    /\ \A i \in 1..Len(t[n].children) : t[t[n].children[i]].parent = n
    /\ \A i, j \in 1..Len(t[n].children) :
           i # j => t[n].children[i] # t[n].children[j]

\* a node with a parent stands among the children of that parent
HeldByParent(t, n) ==
    t[n].parent # Null => IndexOfNode(t[t[n].parent].children, n) # -1

\* C25: after the parse and after every sequence of operations on the tree,
\* every node among p.children has the parent p, the nodes under a style tag
\* included, every node with a parent is among the children of that parent,
\* and no node stands twice among the children of a node
C25_ParentAndChildrenAgree ==
    pc = "ready" =>
        /\ \A n \in InTree(nodes) : ChildrenPointBack(nodes, n)
        /\ \A n \in TreeAndPointing(nodes) : HeldByParent(nodes, n)

-----------------------------------------------------------------------------
(* C28: replaceWith by an earlier sibling *)

\* the children of the parent of the replaced node, before the call
SiblingsBefore == prev[prev[lastOp.this].parent].children

\* replaceWith was called, in a tree where every child is held once and by
\* its parent, with a node that stands before the replaced node among the
\* children of the same parent
ReplacedByEarlierSibling ==
    /\ lastOp.op = "replaceWith"
    /\ ~lastOp.threw
    /\ Consistent(prev)
    /\ lastOp.this \in InTree(prev)
    /\ prev[lastOp.this].type # "tag-close"
    /\ prev[lastOp.node].type # "tag-close"
    /\ prev[lastOp.this].parent # Null
    /\ prev[lastOp.node].parent = prev[lastOp.this].parent
    /\ IndexOfNode(SiblingsBefore, lastOp.node) < IndexOfNode(SiblingsBefore, lastOp.this)

RECURSIVE Apart(_, _)
\* the sequence cs without the nodes of the set S
Apart(cs, S) ==
    IF cs = <<>> THEN <<>>
    ELSE (IF Head(cs) \in S THEN <<>> ELSE <<Head(cs)>>) \o Apart(Tail(cs), S)

\* the replaced node and its closing tag
ReplacedPair ==
    {lastOp.this} \cup (IF FindClosingTag(prev, lastOp.this) # Null
                         THEN {FindClosingTag(prev, lastOp.this)} ELSE {})

\* the replacement with what moves along with it: the whitespace before it
\* and its closing tag
CarriedSet == {Carried(TRUE)[i] : i \in 1..Len(Carried(TRUE))}

\* the children expected after the call: the siblings that stood before the
\* replaced node, the replacement at the place of the replaced node, and the
\* siblings that stood after the replaced node and its closing tag
SiblingsExpected ==
    Apart(SubSeq(SiblingsBefore, 1, IndexOfNode(SiblingsBefore, lastOp.this)),
          CarriedSet \cup ReplacedPair)
    \o Carried(TRUE)
    \o Apart(SubSeq(SiblingsBefore, IndexOfNode(SiblingsBefore, lastOp.this) + 2,
                    Len(SiblingsBefore)),
             CarriedSet \cup ReplacedPair)

\* C28: replaceWith by an earlier sibling puts the replacement at the place
\* of the replaced node, deletes the replaced node with its closing tag and
\* nothing else, and keeps the other siblings in their order
C28_EarlierSiblingTakesThePlace ==
    ReplacedByEarlierSibling =>
        nodes[prev[lastOp.this].parent].children = SiblingsExpected

-----------------------------------------------------------------------------
(* C29: no operation makes the tree cyclic *)

RECURSIVE ParentsEndFrom(_, _, _)
\* following the parent references from n for at most k steps ends at a node
\* without parent
ParentsEndFrom(t, n, k) ==
    IF t[n].parent = Null THEN TRUE
    ELSE IF k = 0 THEN FALSE
    ELSE ParentsEndFrom(t, t[n].parent, k - 1)

\* C29: after every sequence of operations no node is its own ancestor: from
\* every node the parent references lead to a node without parent, and no
\* node is reached from its own children
C29_NoNodeItsOwnAncestor ==
    \A n \in 1..Len(nodes) :
        /\ ParentsEndFrom(nodes, n, Len(nodes))
        /\ n \notin ReachFrom(nodes, ChildSet(nodes, n))

-----------------------------------------------------------------------------
(* C30: the replacement of remove is undone *)

\* the loop has ended, by exhaustion or because the caller left it
LoopEnded == pc \in {"finished", "left", "after"}

\* C30: once the iteration has ended, by exhaustion or by the caller leaving
\* the loop early, remove is the original operation again, and a call of
\* remove changes the state of no iterator
C30_RemoveRestoredAfterLoop ==
    /\ [](LoopEnded => ~iter.patched)
    /\ [][LoopEnded => iter' = iter]_vars

\* the same for the loops that ran until next() answered done
RemoveRestoredAfterExhaustion ==
    /\ []((pc = "finished" \/ (pc = "after" /\ iter.currentNode = Null)) => ~iter.patched)
    /\ [][pc = "finished" => iter' = iter]_vars

====
